---- MODULE Spec2Model ----
(***************************************************************************)
(* A model of claude-loop-runner: the two-stage pipeline (prompt pool,     *)
(* verify pool), the in-memory State behind one mutex, the state file it   *)
(* is saved to (temp file + rename), and crash / resume of an invocation.  *)
(***************************************************************************)
EXTENDS Integers, Sequences, FiniteSets, TLC

(* ------------------------------ bounds -------------------------------- *)

\* number of paths in the input manifest
NumFiles == 2
\* workers per pool (Config.concurrency)
PoolSize == 1
\* largest --max-retries value drawn
MaxRetryChoice == 2
\* invocations of the program on one task (1 fresh + resumes)
MaxRuns == 2

(* ------------------------- program constants -------------------------- *)

\* bounded::<FileTask>(100)
QueueCap == 100
\* #[arg(long, default_value = "3")] max_retries
DefaultMaxRetries == 3

Paths == 1..NumFiles
Workers == 1..PoolSize
\* a worker that holds no FileTask (it is at, or before, its recv)
NoTask == 0

(* ------------------------------ types --------------------------------- *)

Terminal == {"Completed", "Failed"}

FileStatus ==
    {"Pending", "PromptInProgress", "AwaitingVerification", "VerifyInProgress",
     "FixupInProgress"} \cup Terminal

NoResult == "none"
\* what parse_result can return, abstracted: null (no RESULT line) or a value
ParsedResults == {"null", "json"}

NoError == [kind |-> "none", run |-> 0]
ClaudeError == [kind |-> "claude", run |-> 0]
VerifySpawnError == [kind |-> "spawn", run |-> 0]
\* the stderr/stdout of the k-th verify run of this invocation
VerifyOutput(k) == [kind |-> "verify", run |-> k]

\* FileState::new
NewFileState ==
    [status |-> "Pending", attempts |-> 0, result |-> NoResult, err |-> NoError]

NoMaxFiles == NumFiles + 1
MaxFilesChoices == {1, NoMaxFiles}
RetryChoices == (0..MaxRetryChoice) \cup {DefaultMaxRetries}

(* ------------------------------ state --------------------------------- *)

VARIABLES
    phase,      \* "seed" | "run" | "down": where the orchestrator is
    runs,       \* invocations so far
    cfg,        \* the invocation's effective Config
    cfgSaved,   \* State.config as persisted in the state file
    files,      \* State.files in memory
    disk,       \* the state file and its sibling temp file
    lock,       \* holder of the state mutex
    toQueue,    \* files_to_queue not yet visited by the seed pass
    queued,     \* the seed pass's counter
    promptQ,    \* PromptQueue
    verifyQ,    \* VerifyQueue
    pw,         \* prompt workers
    vw,         \* verify workers
    calls,      \* per path: subprocesses started in this invocation
    loaded,     \* State.files as this invocation first had it
    registry,   \* the TaskList (task_list.json)
    ended,      \* how the last invocation ended: "no" while one is running
    created,    \* the task ids create_task has returned, in order
    git,        \* GitState, the working tree and the classification results
    parse,      \* a stdout and what parse_result made of it
    merge,      \* a State.files map and the manifests merged into it
    mem         \* the memory monitor: pause flag, samples, Notified futures

\* the variables of the pipeline
pipeline ==
    <<phase, runs, cfg, cfgSaved, files, disk, lock, toQueue, queued,
      promptQ, verifyQ, pw, vw, calls, loaded>>

\* the variables only the component specifications change
side == <<created, git, parse, merge, mem>>

vars == <<pipeline, registry, ended, side>>

Free == <<"free", 0>>
Orch == <<"orch", 0>>
PLock(w) == <<"p", w>>
VLock(w) == <<"v", w>>

(* --------------------------- State methods ---------------------------- *)

update_status(f, p, s) == [f EXCEPT ![p].status = s]
set_result(f, p, r) == [f EXCEPT ![p].result = r]
\* mutant: a failed verify counts twice
increment_attempts_twice(f, p) == [f EXCEPT ![p].attempts = @ + 2]
increment_attempts(f, p) == [f EXCEPT ![p].attempts = @ + 1]
get_attempts(f, p) == f[p].attempts
set_error(f, p, e) == [f EXCEPT ![p].err = e]

(* ----------------------------- the disk ------------------------------- *)

\* the state file holds a complete serialization, or the start of one
Serialize(f) == [kind |-> "full", files |-> f]
Partial == [kind |-> "partial", files |-> [p \in Paths |-> NewFileState]]

\* State::save run to its end: temp file written, then renamed over the state file
SaveDone(d, f) == [main |-> Serialize(f), tmp |-> "absent"]

\* mutant: save writes the state file in place, with no temp file and rename
SaveCrashOutcomes_inPlace(d, f) ==
    {d, [d EXCEPT !.main = Partial], [d EXCEPT !.main = Serialize(f)]}

\* State::save cut short by a crash: before fs::write, inside it, or after it
\* and before fs::rename
SaveCrashOutcomes(d, f) ==
    {d, [d EXCEPT !.tmp = "partial"], [d EXCEPT !.tmp = "complete"]}

\* State::load
Loadable(d) == d.main.kind = "full"
Load(d) == d.main.files

(* ----------------------------- Config --------------------------------- *)

CliArgs ==
    [maxRetries : RetryChoices, verify : BOOLEAN, maxFiles : MaxFilesChoices]

\* Config::from_cli
from_cli(cli) ==
    [maxRetries |-> cli.maxRetries, hasVerify |-> cli.verify,
     maxFiles |-> cli.maxFiles]

\* Config::merge_with_cli: a CLI value wins when it was given (not the default)
merge_with_cli(saved, cli) ==
    [maxRetries |-> IF cli.maxRetries # DefaultMaxRetries
                    THEN cli.maxRetries ELSE saved.maxRetries,
     hasVerify |-> cli.verify \/ saved.hasVerify,
     maxFiles |-> IF cli.maxFiles # NoMaxFiles
                  THEN cli.maxFiles ELSE saved.maxFiles]

(* ------------------- the components at rest --------------------------- *)

\* nothing merged, classified or parsed: the values the component variables
\* keep while the pipeline runs
GitOff == [on |-> FALSE]
ParseOff == [on |-> FALSE]
MergeOff == [on |-> FALSE]
MemOff == [on |-> FALSE]

SideOff ==
    /\ created = <<>>
    /\ git = GitOff
    /\ parse = ParseOff
    /\ merge = MergeOff
    /\ mem = MemOff

(* ---------------------------- TaskList -------------------------------- *)

\* format!("task_{}", n) and format!("state_{}.json", n)
TaskId(n) == <<"task", n>>
StateFile(n) == <<"state", n>>

\* TaskList::default
EmptyTaskList == [tasks |-> <<>>, next_id |-> 0]

\* TaskList::create_task: the id it returns
NewTaskId(tl) == TaskId(tl.next_id)

\* mutant: the counter is not bumped
create_task_sameCounter(tl) ==
    LET id == NewTaskId(tl)
        entry == [state_file |-> StateFile(tl.next_id), completed |-> FALSE]
    IN [tasks |-> [k \in (DOMAIN tl.tasks) \cup {id} |->
                      IF k = id THEN entry ELSE tl.tasks[k]],
        next_id |-> tl.next_id]

\* TaskList::create_task: the list afterwards (HashMap::insert replaces an
\* entry that has the same key)
create_task(tl) ==
    LET id == NewTaskId(tl)
        n == tl.next_id + 1
        entry == [state_file |-> StateFile(n - 1), completed |-> FALSE]
    IN [tasks |-> [k \in (DOMAIN tl.tasks) \cup {id} |->
                      IF k = id THEN entry ELSE tl.tasks[k]],
        next_id |-> n]

\* TaskList::mark_completed
mark_completed(tl, id) ==
    IF id \in DOMAIN tl.tasks
    THEN [tl EXCEPT !.tasks[id].completed = TRUE]
    ELSE tl

\* TaskList::get_incomplete_tasks
get_incomplete_tasks(tl) == {id \in DOMAIN tl.tasks : ~tl.tasks[id].completed}

\* State::get_summary: the number of records in each status
get_summary(f) ==
    [s \in FileStatus |-> Cardinality({p \in DOMAIN f : f[p].status = s})]

\* main, after run returned Ok: the test under which the task is marked completed
CompletionCheck(summary) ==
    /\ summary["Pending"] = 0
    /\ summary["PromptInProgress"] = 0
    /\ summary["VerifyInProgress"] = 0

\* the task this pipeline runs: the first one created in an empty tasks directory
ThisTask == NewTaskId(EmptyTaskList)

\* main, after run returned Ok: State::load, get_summary, mark_completed
MainEpilogue(tl, d) ==
    IF CompletionCheck(get_summary(Load(d))) THEN mark_completed(tl, ThisTask) ELSE tl

(* --------------------------- Orchestrator ----------------------------- *)

\* queue_pending_files, first pass: the records that are not Completed or Failed
FilesToQueue(f) == {p \in DOMAIN f : f[p].status \notin Terminal}

\* mutant: every record that is not terminal is sent through the prompt stage again
SeedRoute_allToPrompt(s) == IF s \in Terminal THEN "skip" ELSE "prompt"

\* queue_pending_files, second pass: the queue a status is sent to
SeedRoute(s) ==
    IF s \in {"Pending", "PromptInProgress"} THEN "prompt"
    ELSE IF s \in {"AwaitingVerification", "VerifyInProgress", "FixupInProgress"}
         THEN "verify"
         ELSE "skip"

CapReached_offByOne == cfg.maxFiles # NoMaxFiles /\ queued > cfg.maxFiles

\* queue_pending_files: `if queued >= max { break }`
CapReached == cfg.maxFiles # NoMaxFiles /\ queued >= cfg.maxFiles

\* how an assistant process that was spawned can end: ProcessOutput.exit_code is
\* 0, or it is not (an error exit, or -1 when killed by a signal)
ExitKinds == {"zero", "nonzero"}

PIdle == [pc |-> "idle", task |-> NoTask, exit |-> "none"]

NoCalls == [p \in Paths |-> [prompt |-> 0, fixup |-> 0, verify |-> 0]]
IdlePW == [w \in Workers |-> [pc |-> "off", task |-> NoTask, exit |-> "none"]]
IdleVW ==
    [w \in Workers |->
        [pc |-> "off", task |-> NoTask, attempts |-> 0, out |-> NoError, exit |-> "none"]]

\* main (new task mode): State::new, merge_input_file, save; then runner::run
\* up to the state lock taken by queue_pending_files
InitPipelineWith(args) ==
    /\ \E cli \in args :
        /\ cfg = from_cli(cli)
        /\ cfgSaved = from_cli(cli)
    /\ files = [p \in Paths |-> NewFileState]
    /\ disk = SaveDone([main |-> Partial, tmp |-> "absent"], files)
    /\ loaded = files
    /\ phase = "seed"
    /\ runs = 1
    /\ lock = Orch
    /\ toQueue = FilesToQueue(files)
    /\ queued = 0
    /\ promptQ = <<>>
    /\ verifyQ = <<>>
    /\ pw = IdlePW
    /\ vw = IdleVW
    /\ calls = NoCalls
    /\ registry = create_task(EmptyTaskList)
    /\ ended = "no"

InitWith(args) == InitPipelineWith(args) /\ SideOff

Init == InitWith(CliArgs)

\* main (resume mode): State::load, merge_with_cli; then runner::run up to the
\* state lock taken by queue_pending_files
ResumeWith(args, maxRuns) ==
    /\ phase = "down"
    /\ runs < maxRuns
    /\ Loadable(disk)
    /\ \E cli \in args : cfg' = merge_with_cli(cfgSaved, cli)
    /\ files' = Load(disk)
    /\ loaded' = Load(disk)
    /\ phase' = "seed"
    /\ runs' = runs + 1
    /\ lock' = Orch
    /\ toQueue' = FilesToQueue(Load(disk))
    /\ queued' = 0
    /\ calls' = NoCalls
    /\ ended' = "no"
    /\ UNCHANGED <<cfgSaved, disk, promptQ, verifyQ, pw, vw, registry, side>>

Resume == ResumeWith(CliArgs, MaxRuns)

\* queue_pending_files, one iteration of the second pass
SeedSendOf(p) ==
    /\ phase = "seed"
    /\ ~CapReached
    /\ p \in toQueue
    /\ toQueue' = toQueue \ {p}
    /\ \/ /\ SeedRoute(files[p].status) = "prompt"
          /\ Len(promptQ) < QueueCap
          /\ promptQ' = Append(promptQ, p)
          /\ queued' = queued + 1
          /\ UNCHANGED verifyQ
       \/ /\ SeedRoute(files[p].status) = "verify"
          /\ Len(verifyQ) < QueueCap
          /\ verifyQ' = Append(verifyQ, p)
          /\ queued' = queued + 1
          /\ UNCHANGED promptQ
       \/ /\ SeedRoute(files[p].status) = "skip"
          /\ UNCHANGED <<promptQ, verifyQ, queued>>
    /\ UNCHANGED <<phase, runs, cfg, cfgSaved, files, disk, lock, pw, vw, calls, loaded>>
    /\ UNCHANGED <<registry, ended, side>>

\* the files_to_queue Vec is in the HashMap's iteration order: any order
SeedSend == \E p \in toQueue : SeedSendOf(p)

\* run: queue_pending_files returns; with nothing queued run returns, else the
\* pools are spawned and the orchestrator's senders dropped
SeedEnd ==
    /\ phase = "seed"
    /\ toQueue = {} \/ CapReached
    /\ lock' = Free
    /\ IF queued = 0
       THEN /\ phase' = "down"
            /\ registry' = MainEpilogue(registry, disk)
            /\ ended' = "finished"
            /\ UNCHANGED <<pw, vw>>
       ELSE /\ phase' = "run"
            /\ UNCHANGED <<registry, ended>>
            /\ pw' = [w \in Workers |-> PIdle]
            /\ vw' = [w \in Workers |->
                        [IdleVW[w] EXCEPT !.pc = IF cfg.hasVerify THEN "idle" ELSE "done"]]
    /\ UNCHANGED <<runs, cfg, cfgSaved, files, disk, toQueue, queued, promptQ, verifyQ,
                   calls, loaded>>
    /\ UNCHANGED side

\* run: every worker handle has completed; run returns Ok, main marks the task
\* completed if its test says so, and the process exits
Finish ==
    /\ phase = "run"
    /\ \A w \in Workers : pw[w].pc = "done" /\ vw[w].pc = "done"
    /\ phase' = "down"
    /\ promptQ' = <<>>
    /\ verifyQ' = <<>>
    /\ pw' = IdlePW
    /\ vw' = IdleVW
    /\ registry' = MainEpilogue(registry, disk)
    /\ ended' = "finished"
    /\ toQueue' = {}
    /\ UNCHANGED <<runs, cfg, cfgSaved, files, disk, lock, queued, calls, loaded>>
    /\ UNCHANGED side

\* run: the shutdown signal wins the select; run takes the state lock for its
\* summary and returns Ok, main marks the task completed if its test says so,
\* and the process exits with the workers where they are
Shutdown ==
    /\ phase = "run"
    /\ lock = Free
    /\ phase' = "down"
    /\ toQueue' = {}
    /\ queued' = 0
    /\ promptQ' = <<>>
    /\ verifyQ' = <<>>
    /\ pw' = IdlePW
    /\ vw' = IdleVW
    /\ registry' = MainEpilogue(registry, disk)
    /\ ended' = "shutdown"
    /\ UNCHANGED <<runs, cfg, cfgSaved, files, disk, lock, calls, loaded>>
    /\ UNCHANGED side

\* the process dies (kill, power loss, exit after a shutdown signal): memory,
\* queues and workers are gone, the disk is what it is; a save under way is cut
Crash ==
    /\ phase \in {"seed", "run"}
    /\ IF lock \in {Free, Orch}
       THEN disk' = disk
       ELSE disk' \in SaveCrashOutcomes(disk, files)
    /\ phase' = "down"
    /\ lock' = Free
    /\ toQueue' = {}
    /\ queued' = 0
    /\ promptQ' = <<>>
    /\ verifyQ' = <<>>
    /\ pw' = IdlePW
    /\ vw' = IdleVW
    /\ ended' = "crash"
    /\ UNCHANGED <<runs, cfg, cfgSaved, files, calls, loaded, registry, side>>

\* State::save, the rename: the lock holder's save completes and the lock is released
SaveCommit ==
    /\ lock \notin {Free, Orch}
    /\ disk' = SaveDone(disk, files)
    /\ lock' = Free
    /\ UNCHANGED <<phase, runs, cfg, cfgSaved, files, toQueue, queued, promptQ, verifyQ,
                   pw, vw, calls, loaded>>
    /\ UNCHANGED <<registry, ended, side>>

(* ---------------------------- Prompt pool ----------------------------- *)

\* mutant: the prompt worker changes the status and stores no result
PromptSuccessUpdate_noResult(f, p, r, hasVerify) ==
    update_status(f, p, IF hasVerify THEN "AwaitingVerification" ELSE "Completed")

\* mutant: the prompt worker completes the file whether or not a verify command is set
PromptSuccessUpdate_alwaysCompleted(f, p, r, hasVerify) ==
    update_status(set_result(f, p, r), p, "Completed")

\* prompt_worker, Ok(output): set_result, then the status by verification_cmd
PromptSuccessUpdate(f, p, r, hasVerify) ==
    update_status(set_result(f, p, r), p,
                  IF hasVerify THEN "AwaitingVerification" ELSE "Completed")

\* mutant: a failed prompt puts the file back to Pending to be tried again
PromptFailureUpdate_backToPending(f, p) ==
    set_error(update_status(f, p, "Pending"), p, ClaudeError)

\* prompt_worker, Err(e): Failed and the error, the result left alone
PromptFailureUpdate(f, p) ==
    set_error(update_status(f, p, "Failed"), p, ClaudeError)

\* prompt_worker: recv, the PromptInProgress section (its save under way), then run_claude
P_Recv(w) ==
    /\ phase = "run"
    /\ pw[w].pc = "idle"
    /\ promptQ # <<>>
    /\ lock = Free
    /\ LET p == Head(promptQ) IN
        /\ promptQ' = Tail(promptQ)
        /\ files' = update_status(files, p, "PromptInProgress")
        /\ pw' = [pw EXCEPT ![w] = [pc |-> "claude", task |-> p, exit |-> "none"]]
        /\ calls' = [calls EXCEPT ![p].prompt = @ + 1]
    /\ lock' = PLock(w)
    /\ UNCHANGED <<phase, runs, cfg, cfgSaved, disk, toQueue, queued, verifyQ, vw, loaded>>
    /\ UNCHANGED <<registry, ended, side>>

\* prompt_worker: run_claude returned Ok(output), whatever output.exit_code is;
\* parse_result, the result section
P_ClaudeOk(w) ==
    /\ phase = "run"
    /\ pw[w].pc = "claude"
    /\ lock = Free
    /\ \E r \in ParsedResults :
        files' = PromptSuccessUpdate(files, pw[w].task, r, cfg.hasVerify)
    /\ \E x \in ExitKinds :
        pw' = [pw EXCEPT ![w] = IF cfg.hasVerify
                                THEN [pc |-> "send", task |-> pw[w].task, exit |-> x]
                                ELSE [PIdle EXCEPT !.exit = x]]
    /\ lock' = PLock(w)
    /\ UNCHANGED <<phase, runs, cfg, cfgSaved, disk, toQueue, queued, promptQ, verifyQ,
                   vw, calls, loaded>>
    /\ UNCHANGED <<registry, ended, side>>

\* prompt_worker: run_claude returned Err; the failure section
P_ClaudeErr(w) ==
    /\ phase = "run"
    /\ pw[w].pc = "claude"
    /\ lock = Free
    /\ files' = PromptFailureUpdate(files, pw[w].task)
    /\ pw' = [pw EXCEPT ![w] = PIdle]
    /\ lock' = PLock(w)
    /\ UNCHANGED <<phase, runs, cfg, cfgSaved, disk, toQueue, queued, promptQ, verifyQ,
                   vw, calls, loaded>>
    /\ UNCHANGED <<registry, ended, side>>

\* prompt_worker: verify_tx.send(task)
P_Send(w) ==
    /\ phase = "run"
    /\ pw[w].pc = "send"
    /\ lock # PLock(w)
    /\ Len(verifyQ) < QueueCap
    /\ verifyQ' = Append(verifyQ, pw[w].task)
    /\ pw' = [pw EXCEPT ![w] = PIdle]
    /\ UNCHANGED <<phase, runs, cfg, cfgSaved, files, disk, lock, toQueue, queued, promptQ,
                   vw, calls, loaded>>
    /\ UNCHANGED <<registry, ended, side>>

\* prompt_worker: recv fails, the PromptQueue is closed and empty
P_Exit(w) ==
    /\ phase = "run"
    /\ pw[w].pc = "idle"
    /\ lock # PLock(w)
    /\ promptQ = <<>>
    /\ pw' = [pw EXCEPT ![w].pc = "done", ![w].exit = "none"]
    /\ UNCHANGED <<phase, runs, cfg, cfgSaved, files, disk, lock, toQueue, queued, promptQ,
                   verifyQ, vw, calls, loaded>>
    /\ UNCHANGED <<registry, ended, side>>

(* ---------------------------- Verify pool ----------------------------- *)

\* mutant: the budget test is off by one
BudgetExhausted_offByOne(attempts, maxRetries) == attempts > maxRetries

\* verify_worker: `if attempts >= config.max_retries`
BudgetExhausted(attempts, maxRetries) == attempts >= maxRetries

\* mutant: a verify command that cannot be spawned counts as a failed attempt
VerifySpawnFailUpdate_countsAttempt(f, p) ==
    increment_attempts(set_error(update_status(f, p, "Failed"), p, VerifySpawnError), p)

\* verify_worker, run_command Err: Failed and the error
VerifySpawnFailUpdate(f, p) ==
    set_error(update_status(f, p, "Failed"), p, VerifySpawnError)

\* mutant: at max retries the error is stored but the status is left as it is
BudgetFailUpdate_statusKept(f, p, out) == set_error(f, p, out)

\* verify_worker, max retries reached: Failed and the verify output
BudgetFailUpdate(f, p, out) ==
    set_error(update_status(f, p, "Failed"), p, out)

\* verify_worker, run_claude Ok in the fixup: the parsed result
FixupSuccessUpdate(f, p, r) == set_result(f, p, r)

\* mutant: a failed fixup marks the file Failed and stores no error
FixupFailureUpdate_noError(f, p) == update_status(f, p, "Failed")

\* verify_worker, run_claude Err in the fixup: Failed and the error
FixupFailureUpdate(f, p) ==
    set_error(update_status(f, p, "Failed"), p, ClaudeError)

\* mutant: the FixupInProgress section does not save
FixupSectionLock_noSave(w) == Free

\* verify_worker, FixupInProgress section: `state.save(&state_path)` keeps the
\* lock until the save is done
FixupSectionLock(w) == VLock(w)

\* mutant: after a fixup the task is also sent back to the PromptQueue
PromptQueueAfterFixup_requeue(q, p) == Append(q, p)

\* verify_worker, after a fixup: the task stays with the worker, which loops
\* to re-verify; nothing is sent on the PromptQueue
PromptQueueAfterFixup(q, p) == q

VIdle ==
    [pc |-> "idle", task |-> NoTask, attempts |-> 0, out |-> NoError, exit |-> "none"]

\* verify_worker: recv, then get_attempts under the lock
V_Recv(w) ==
    /\ phase = "run"
    /\ vw[w].pc = "idle"
    /\ verifyQ # <<>>
    /\ lock = Free
    /\ LET p == Head(verifyQ) IN
        /\ verifyQ' = Tail(verifyQ)
        /\ vw' = [vw EXCEPT ![w] = [pc |-> "loop", task |-> p,
                                    attempts |-> get_attempts(files, p),
                                    out |-> NoError, exit |-> "none"]]
    /\ UNCHANGED <<phase, runs, cfg, cfgSaved, files, disk, lock, toQueue, queued, promptQ,
                   pw, calls, loaded>>
    /\ UNCHANGED <<registry, ended, side>>

\* verify_worker, top of the loop: the VerifyInProgress section, then run_command
V_LoopTop(w) ==
    /\ phase = "run"
    /\ vw[w].pc = "loop"
    /\ lock = Free
    /\ files' = update_status(files, vw[w].task, "VerifyInProgress")
    /\ vw' = [vw EXCEPT ![w].pc = "verify", ![w].exit = "none"]
    /\ calls' = [calls EXCEPT ![vw[w].task].verify = @ + 1]
    /\ lock' = VLock(w)
    /\ UNCHANGED <<phase, runs, cfg, cfgSaved, disk, toQueue, queued, promptQ, verifyQ,
                   pw, loaded>>
    /\ UNCHANGED <<registry, ended, side>>

\* verify_worker: run_command returned Err
V_VerifySpawnErr(w) ==
    /\ phase = "run"
    /\ vw[w].pc = "verify"
    /\ lock = Free
    /\ files' = VerifySpawnFailUpdate(files, vw[w].task)
    /\ vw' = [vw EXCEPT ![w] = VIdle]
    /\ lock' = VLock(w)
    /\ UNCHANGED <<phase, runs, cfg, cfgSaved, disk, toQueue, queued, promptQ, verifyQ,
                   pw, calls, loaded>>
    /\ UNCHANGED <<registry, ended, side>>

\* verify_worker: exit code 0
V_VerifyPass(w) ==
    /\ phase = "run"
    /\ vw[w].pc = "verify"
    /\ lock = Free
    /\ files' = update_status(files, vw[w].task, "Completed")
    /\ vw' = [vw EXCEPT ![w] = VIdle]
    /\ lock' = VLock(w)
    /\ UNCHANGED <<phase, runs, cfg, cfgSaved, disk, toQueue, queued, promptQ, verifyQ,
                   pw, calls, loaded>>
    /\ UNCHANGED <<registry, ended, side>>

\* mutant: the attempts section does not take the state lock
LockAcquired_unlocked(l) == TRUE

\* `state.lock().await` returns: the mutex was free
LockAcquired(l) == l = Free

\* verify_worker: exit code not 0; attempts += 1 and increment_attempts (no save)
V_VerifyFail(w) ==
    /\ phase = "run"
    /\ vw[w].pc = "verify"
    /\ LockAcquired(lock)
    /\ files' = increment_attempts(files, vw[w].task)
    /\ vw' = [vw EXCEPT ![w].pc = "decide",
                        ![w].attempts = @ + 1,
                        ![w].out = VerifyOutput(calls[vw[w].task].verify)]
    /\ UNCHANGED <<phase, runs, cfg, cfgSaved, disk, lock, toQueue, queued, promptQ,
                   verifyQ, pw, calls, loaded>>
    /\ UNCHANGED <<registry, ended, side>>

\* verify_worker: max retries reached, the Failed section, break
V_GiveUp(w) ==
    /\ phase = "run"
    /\ vw[w].pc = "decide"
    /\ lock = Free
    /\ BudgetExhausted(vw[w].attempts, cfg.maxRetries)
    /\ files' = BudgetFailUpdate(files, vw[w].task, vw[w].out)
    /\ vw' = [vw EXCEPT ![w] = VIdle]
    /\ lock' = VLock(w)
    /\ UNCHANGED <<phase, runs, cfg, cfgSaved, disk, toQueue, queued, promptQ, verifyQ,
                   pw, calls, loaded>>
    /\ UNCHANGED <<registry, ended, side>>

\* verify_worker: retries left, the FixupInProgress section, then run_claude
V_StartFixup(w) ==
    /\ phase = "run"
    /\ vw[w].pc = "decide"
    /\ lock = Free
    /\ ~BudgetExhausted(vw[w].attempts, cfg.maxRetries)
    /\ files' = update_status(files, vw[w].task, "FixupInProgress")
    /\ vw' = [vw EXCEPT ![w].pc = "fixup", ![w].out = NoError]
    /\ calls' = [calls EXCEPT ![vw[w].task].fixup = @ + 1]
    /\ lock' = FixupSectionLock(w)
    /\ UNCHANGED <<phase, runs, cfg, cfgSaved, disk, toQueue, queued, promptQ, verifyQ,
                   pw, loaded>>
    /\ UNCHANGED <<registry, ended, side>>

\* verify_worker: the fixup's run_claude returned Ok(output), whatever
\* output.exit_code is; the result section, loop again
V_FixupOk(w) ==
    /\ phase = "run"
    /\ vw[w].pc = "fixup"
    /\ lock = Free
    /\ \E r \in ParsedResults : files' = FixupSuccessUpdate(files, vw[w].task, r)
    /\ \E x \in ExitKinds : vw' = [vw EXCEPT ![w].pc = "loop", ![w].exit = x]
    /\ lock' = VLock(w)
    /\ promptQ' = PromptQueueAfterFixup(promptQ, vw[w].task)
    /\ UNCHANGED <<phase, runs, cfg, cfgSaved, disk, toQueue, queued, verifyQ,
                   pw, calls, loaded>>
    /\ UNCHANGED <<registry, ended, side>>

\* verify_worker: the fixup's run_claude returned Err; the Failed section, break
V_FixupErr(w) ==
    /\ phase = "run"
    /\ vw[w].pc = "fixup"
    /\ lock = Free
    /\ files' = FixupFailureUpdate(files, vw[w].task)
    /\ vw' = [vw EXCEPT ![w] = VIdle]
    /\ lock' = VLock(w)
    /\ UNCHANGED <<phase, runs, cfg, cfgSaved, disk, toQueue, queued, promptQ, verifyQ,
                   pw, calls, loaded>>
    /\ UNCHANGED <<registry, ended, side>>

\* verify_worker: recv fails, the VerifyQueue is empty and every sender is dropped
V_Exit(w) ==
    /\ phase = "run"
    /\ vw[w].pc = "idle"
    /\ lock # VLock(w)
    /\ verifyQ = <<>>
    /\ \A u \in Workers : pw[u].pc = "done"
    /\ vw' = [vw EXCEPT ![w].pc = "done"]
    /\ UNCHANGED <<phase, runs, cfg, cfgSaved, files, disk, lock, toQueue, queued, promptQ,
                   verifyQ, pw, calls, loaded>>
    /\ UNCHANGED <<registry, ended, side>>

(* ------------------------- the specification -------------------------- *)

\* every step of an invocation, and its death
Work ==
    \/ SeedSend
    \/ SeedEnd
    \/ Finish
    \/ Shutdown
    \/ Crash
    \/ SaveCommit
    \/ \E w \in Workers : P_Recv(w)
    \/ \E w \in Workers : P_ClaudeOk(w)
    \/ \E w \in Workers : P_ClaudeErr(w)
    \/ \E w \in Workers : P_Send(w)
    \/ \E w \in Workers : P_Exit(w)
    \/ \E w \in Workers : V_Recv(w)
    \/ \E w \in Workers : V_LoopTop(w)
    \/ \E w \in Workers : V_VerifySpawnErr(w)
    \/ \E w \in Workers : V_VerifyPass(w)
    \/ \E w \in Workers : V_VerifyFail(w)
    \/ \E w \in Workers : V_GiveUp(w)
    \/ \E w \in Workers : V_StartFixup(w)
    \/ \E w \in Workers : V_FixupOk(w)
    \/ \E w \in Workers : V_FixupErr(w)
    \/ \E w \in Workers : V_Exit(w)

Next == Resume \/ Work

Spec == Init /\ [][Next]_vars

(* ---- the pipeline over three invocations, with fewer command lines ---- *)

\* invocations of the program on one task in SpecResume
MaxResumeRuns == 3

\* command lines that differ only in whether --verify is given
ResumeCli == [maxRetries : {1, 2}, verify : BOOLEAN, maxFiles : {NoMaxFiles}]

InitResume == InitWith(ResumeCli)

ResumeAgain == ResumeWith(ResumeCli, MaxResumeRuns)

NextResume == ResumeAgain \/ Work

SpecResume == InitResume /\ [][NextResume]_vars

(* ------------------- the pipeline with saves that fail ----------------- *)

\* State::save returns Err: create_dir_all or the serialization failed, or
\* fs::write did (the temp file may be partly written), or fs::rename did (the
\* temp file is complete); the state file is as it was
SaveFailOutcomes(d, f) ==
    {d, [d EXCEPT !.tmp = "partial"], [d EXCEPT !.tmp = "complete"]}

\* mutant: on a save error the worker falls back to the State on disk
AfterFailedSave_reloaded(f, d) == IF Loadable(d) THEN Load(d) ELSE f

\* `if let Err(e) = state.save(&state_path) { error!(..) }`: the error is
\* logged and the State in memory is what it was
AfterFailedSave(f, d) == f

\* State::save returns Err to a worker: logged, the guard is dropped and the
\* worker goes on
SaveFail ==
    /\ lock \notin {Free, Orch}
    /\ disk' \in SaveFailOutcomes(disk, files)
    /\ files' = AfterFailedSave(files, disk)
    /\ lock' = Free
    /\ UNCHANGED <<phase, runs, cfg, cfgSaved, toQueue, queued, promptQ, verifyQ,
                   pw, vw, calls, loaded>>
    /\ UNCHANGED <<registry, ended, side>>

\* one invocation, with or without a verify command
SaveFailCli == [maxRetries : {2}, verify : BOOLEAN, maxFiles : {NoMaxFiles}]

SaveFailInit == InitWith(SaveFailCli)

NextSaveFail == SaveFail \/ Work

SpecSaveFail == SaveFailInit /\ [][NextSaveFail]_vars

(* ------------------------- the memory monitor -------------------------- *)

\* spawn_monitor's thresholds, and the samples of used memory in percent: a
\* grid with a value on, below and above each threshold
HighThreshold == 3
LowThreshold == 1
Samples == 0..4

\* mutant: one threshold, the flag follows the sample
monitor_step_noBand(paused, percent) ==
    IF ~paused /\ percent > HighThreshold
    THEN [paused |-> TRUE, notify |-> FALSE]
    ELSE IF paused /\ percent <= HighThreshold
         THEN [paused |-> FALSE, notify |-> TRUE]
         ELSE [paused |-> paused, notify |-> FALSE]

\* spawn_monitor, the loop body after the sample: the flag it stores and whether
\* it goes on to notify_waiters
monitor_step(paused, percent) ==
    IF ~paused /\ percent > HighThreshold
    THEN [paused |-> TRUE, notify |-> FALSE]
    ELSE IF paused /\ percent < LowThreshold
         THEN [paused |-> FALSE, notify |-> TRUE]
         ELSE [paused |-> paused, notify |-> FALSE]

\* MemoryMonitor::new, and no Notified future yet; checks counts, per path, the
\* times a verify worker has read the flag for it
MemNew ==
    [on |-> TRUE, paused |-> FALSE, percent |-> 0, n |-> 0, mon |-> "sleep",
     fut |-> [w \in Workers |-> "none"],
     checks |-> [p \in Paths |-> 0]]

\* spawn_monitor: refresh_memory, the load of the flag and the store
Mem_Sample ==
    /\ mem.on
    /\ phase \in {"seed", "run"}
    /\ mem.mon = "sleep"
    /\ \E percent \in Samples :
        LET d == monitor_step(mem.paused, percent) IN
        mem' = [mem EXCEPT !.paused = d.paused, !.percent = percent,
                           !.n = 1 - @,
                           !.mon = IF d.notify THEN "notify" ELSE "sleep"]
    /\ UNCHANGED <<pipeline, registry, ended, created, git, parse, merge>>

\* spawn_monitor: resume_notify.notify_waiters() wakes the Notified futures
\* that exist, and stores no permit
Mem_Notify ==
    /\ mem.on
    /\ phase \in {"seed", "run"}
    /\ mem.mon = "notify"
    /\ mem' = [mem EXCEPT !.mon = "sleep",
                          !.fut = [w \in Workers |->
                                    IF mem.fut[w] = "pending" THEN "woken"
                                    ELSE mem.fut[w]]]
    /\ UNCHANGED <<pipeline, registry, ended, created, git, parse, merge>>

\* verify_worker: recv; the task is held while the flag is looked at
V_MemRecv(w) ==
    /\ mem.on
    /\ phase = "run"
    /\ vw[w].pc = "idle"
    /\ lock # VLock(w)
    /\ verifyQ # <<>>
    /\ verifyQ' = Tail(verifyQ)
    /\ vw' = [vw EXCEPT ![w] = [VIdle EXCEPT !.pc = "memcheck", !.task = Head(verifyQ)]]
    /\ UNCHANGED <<phase, runs, cfg, cfgSaved, files, disk, lock, toQueue, queued, promptQ,
                   pw, calls, loaded>>
    /\ UNCHANGED <<registry, ended, side>>

\* verify_worker: get_attempts under the lock, on to the loop
MemProceed(w) ==
    /\ lock = Free
    /\ vw' = [vw EXCEPT ![w].pc = "loop",
                        ![w].attempts = get_attempts(files, vw[w].task)]
    /\ UNCHANGED <<phase, runs, cfg, cfgSaved, files, disk, lock, toQueue, queued, promptQ,
                   verifyQ, pw, calls, loaded>>
    /\ UNCHANGED <<registry, ended, created, git, parse, merge>>

\* verify_worker: `if memory.is_paused()` reads false
V_MemIfClear(w) ==
    /\ mem.on
    /\ phase = "run"
    /\ vw[w].pc = "memcheck"
    /\ ~mem.paused
    /\ mem' = [mem EXCEPT !.checks[vw[w].task] = @ + 1]
    /\ MemProceed(w)

\* verify_worker: `if memory.is_paused()` reads true; wait_if_paused is called
V_MemIfPaused(w) ==
    /\ mem.on
    /\ phase = "run"
    /\ vw[w].pc = "memcheck"
    /\ mem.paused
    /\ mem' = [mem EXCEPT !.checks[vw[w].task] = @ + 1]
    /\ vw' = [vw EXCEPT ![w].pc = "while"]
    /\ UNCHANGED <<phase, runs, cfg, cfgSaved, files, disk, lock, toQueue, queued, promptQ,
                   verifyQ, pw, calls, loaded>>
    /\ UNCHANGED <<registry, ended, created, git, parse, merge>>

\* wait_if_paused: `while self.is_paused()` reads false; it returns
V_MemWhileClear(w) ==
    /\ mem.on
    /\ phase = "run"
    /\ vw[w].pc = "while"
    /\ ~mem.paused
    /\ mem' = [mem EXCEPT !.fut[w] = "none"]
    /\ MemProceed(w)

\* wait_if_paused: `while self.is_paused()` reads true
V_MemWhilePaused(w) ==
    /\ mem.on
    /\ phase = "run"
    /\ vw[w].pc = "while"
    /\ mem.paused
    /\ vw' = [vw EXCEPT ![w].pc = "notified"]
    /\ mem' = [mem EXCEPT !.fut[w] = "none"]
    /\ UNCHANGED <<phase, runs, cfg, cfgSaved, files, disk, lock, toQueue, queued, promptQ,
                   verifyQ, pw, calls, loaded>>
    /\ UNCHANGED <<registry, ended, created, git, parse, merge>>

\* wait_if_paused: `resume_notify.notified()` creates the future, which is
\* then awaited
V_MemNotified(w) ==
    /\ mem.on
    /\ phase = "run"
    /\ vw[w].pc = "notified"
    /\ vw' = [vw EXCEPT ![w].pc = "await"]
    /\ mem' = [mem EXCEPT !.fut[w] = "pending"]
    /\ UNCHANGED <<phase, runs, cfg, cfgSaved, files, disk, lock, toQueue, queued, promptQ,
                   verifyQ, pw, calls, loaded>>
    /\ UNCHANGED <<registry, ended, created, git, parse, merge>>

\* wait_if_paused: the awaited future was woken; back to the while test
V_MemWake(w) ==
    /\ mem.on
    /\ phase = "run"
    /\ vw[w].pc = "await"
    /\ mem.fut[w] = "woken"
    /\ vw' = [vw EXCEPT ![w].pc = "while"]
    /\ UNCHANGED mem
    /\ UNCHANGED <<phase, runs, cfg, cfgSaved, files, disk, lock, toQueue, queued, promptQ,
                   verifyQ, pw, calls, loaded>>
    /\ UNCHANGED <<registry, ended, created, git, parse, merge>>

\* one invocation with a verify command and room for a fixup
MemCli == [maxRetries : {2}, verify : {TRUE}, maxFiles : {NoMaxFiles}]

MemInit ==
    /\ InitPipelineWith(MemCli)
    /\ created = <<>>
    /\ git = GitOff
    /\ parse = ParseOff
    /\ merge = MergeOff
    /\ mem = MemNew

\* the pipeline with the verify workers as verify.rs has them, and the monitor
NextMem ==
    \/ Mem_Sample
    \/ Mem_Notify
    \/ SeedSend
    \/ SeedEnd
    \/ Finish
    \/ SaveCommit
    \/ \E w \in Workers : P_Recv(w)
    \/ \E w \in Workers : P_ClaudeOk(w)
    \/ \E w \in Workers : P_ClaudeErr(w)
    \/ \E w \in Workers : P_Send(w)
    \/ \E w \in Workers : P_Exit(w)
    \/ \E w \in Workers : V_MemRecv(w)
    \/ \E w \in Workers : V_MemIfClear(w)
    \/ \E w \in Workers : V_MemIfPaused(w)
    \/ \E w \in Workers : V_MemWhileClear(w)
    \/ \E w \in Workers : V_MemWhilePaused(w)
    \/ \E w \in Workers : V_MemNotified(w)
    \/ \E w \in Workers : V_MemWake(w)
    \/ \E w \in Workers : V_LoopTop(w)
    \/ \E w \in Workers : V_VerifySpawnErr(w)
    \/ \E w \in Workers : V_VerifyPass(w)
    \/ \E w \in Workers : V_VerifyFail(w)
    \/ \E w \in Workers : V_GiveUp(w)
    \/ \E w \in Workers : V_StartFixup(w)
    \/ \E w \in Workers : V_FixupOk(w)
    \/ \E w \in Workers : V_FixupErr(w)
    \/ \E w \in Workers : V_Exit(w)

SpecMem == MemInit /\ [][NextMem]_vars

(* ------------- the state lock along the code of each task -------------- *)

\* an edge of a task's control flow: from a place in the code to the next, and
\* what it does to the state mutex ("lock": state.lock().await returns;
\* "unlock": the guard goes out of scope; "go": neither). A place is named by
\* what happens there and its line.
Edge(from, op, to) == [from |-> from, op |-> op, to |-> to]

\* mutant: git_state is cloned without the block that drops the guard, which
\* then lives to the end of the Ok arm
PromptFlow_guardKept ==
    {Edge("recv58", "go", "lock64"), Edge("recv58", "go", "exit153"),
     Edge("lock64", "lock", "section65"), Edge("section65", "unlock", "claude81"),
     Edge("claude81", "go", "lock85"), Edge("claude81", "go", "lock143"),
     Edge("lock85", "lock", "clone86"),
     Edge("clone86", "go", "git91"), Edge("clone86", "unlock", "lock114"),
     Edge("git91", "unlock", "lock114"),
     Edge("lock114", "lock", "section115"),
     Edge("section115", "unlock", "send132"), Edge("section115", "unlock", "recv58"),
     Edge("send132", "go", "recv58"),
     Edge("lock143", "lock", "section144"), Edge("section144", "unlock", "recv58")}

\* prompt_worker
PromptFlow ==
    {Edge("recv58", "go", "lock64"), Edge("recv58", "go", "exit153"),
     Edge("lock64", "lock", "section65"), Edge("section65", "unlock", "claude81"),
     Edge("claude81", "go", "lock85"), Edge("claude81", "go", "lock143"),
     Edge("lock85", "lock", "clone86"),
     Edge("clone86", "unlock", "git91"), Edge("clone86", "unlock", "lock114"),
     Edge("git91", "go", "lock114"),
     Edge("lock114", "lock", "section115"),
     Edge("section115", "unlock", "send132"), Edge("section115", "unlock", "recv58"),
     Edge("send132", "go", "recv58"),
     Edge("lock143", "lock", "section144"), Edge("section144", "unlock", "recv58")}

\* verify_worker
VerifyFlow ==
    {Edge("cmd96", "go", "recv104"), Edge("cmd96", "go", "exit100"),
     Edge("recv104", "go", "if106"), Edge("recv104", "go", "exit343"),
     Edge("if106", "go", "wait108"), Edge("if106", "go", "lock113"),
     Edge("wait108", "go", "lock113"),
     Edge("lock113", "lock", "get114"), Edge("get114", "unlock", "lock127"),
     Edge("lock127", "lock", "section128"), Edge("section128", "unlock", "run140"),
     Edge("run140", "go", "lock150"), Edge("run140", "go", "commit171"),
     Edge("run140", "go", "lock198"), Edge("run140", "go", "lock209"),
     Edge("lock150", "lock", "section151"), Edge("section151", "unlock", "recv104"),
     Edge("commit171", "go", "lock198"),
     Edge("lock198", "lock", "section199"), Edge("section199", "unlock", "recv104"),
     Edge("lock209", "lock", "section210"), Edge("section210", "unlock", "test227"),
     Edge("test227", "go", "lock243"), Edge("test227", "go", "lock262"),
     Edge("lock243", "lock", "section244"), Edge("section244", "unlock", "recv104"),
     Edge("lock262", "lock", "section263"), Edge("section263", "unlock", "fixup289"),
     Edge("fixup289", "go", "lock301"), Edge("fixup289", "go", "lock329"),
     Edge("lock301", "lock", "section302"), Edge("section302", "unlock", "lock127"),
     Edge("lock329", "lock", "section330"), Edge("section330", "unlock", "recv104")}

\* runner::run: queue_pending_files, the pools, the select, the summary
OrchFlow ==
    {Edge("lock119", "lock", "seed120"),
     Edge("seed120", "unlock", "return43"), Edge("seed120", "unlock", "spawn52"),
     Edge("spawn52", "go", "select78"),
     Edge("select78", "go", "lock97"),
     Edge("lock97", "lock", "summary98"), Edge("summary98", "unlock", "return107")}

\* the places where a task awaits a subprocess it started (run_claude,
\* run_command, git), and where it awaits the memory signal
SubprocessPlaces == {"claude81", "git91", "run140", "commit171", "fixup289"}
MemoryWaitPlaces == {"wait108"}

LockPW(w) == [pc |-> "off", task |-> NoTask, exit |-> "none"]
LockVW(w) == [pc |-> "off", task |-> NoTask, attempts |-> 0, out |-> NoError,
              exit |-> "none"]

\* runner::run is entered; no worker exists yet
LockInit ==
    /\ phase = "lock119"
    /\ runs = 1
    /\ cfg = from_cli(CHOOSE cli \in CliArgs : TRUE)
    /\ cfgSaved = cfg
    /\ files = [p \in Paths |-> NewFileState]
    /\ disk = SaveDone([main |-> Partial, tmp |-> "absent"], files)
    /\ loaded = files
    /\ lock = Free
    /\ toQueue = {}
    /\ queued = 0
    /\ promptQ = <<>>
    /\ verifyQ = <<>>
    /\ pw = [w \in Workers |-> LockPW(w)]
    /\ vw = [w \in Workers |-> LockVW(w)]
    /\ calls = NoCalls
    /\ registry = create_task(EmptyTaskList)
    /\ ended = "no"
    /\ SideOff

\* what an edge does to the mutex when `holder` takes it
LockStep(e, holder) ==
    CASE e.op = "lock" -> lock = Free /\ lock' = holder
      [] e.op = "unlock" -> lock = holder /\ lock' = Free
      [] OTHER -> lock' = lock

\* the orchestrator moves along run; at spawn52 the workers come to life
L_Orch ==
    /\ \E e \in OrchFlow :
        /\ phase = e.from
        /\ phase' = e.to
        /\ LockStep(e, Orch)
        /\ IF e.from = "spawn52"
           THEN /\ pw' = [w \in Workers |-> [pw[w] EXCEPT !.pc = "recv58"]]
                /\ vw' = [w \in Workers |-> [vw[w] EXCEPT !.pc = "cmd96"]]
           ELSE UNCHANGED <<pw, vw>>
    /\ UNCHANGED <<runs, cfg, cfgSaved, files, disk, toQueue, queued, promptQ, verifyQ,
                   calls, loaded>>
    /\ UNCHANGED <<registry, ended, side>>

\* a prompt worker moves along prompt_worker
L_Prompt(w) ==
    /\ \E e \in PromptFlow :
        /\ pw[w].pc = e.from
        /\ pw' = [pw EXCEPT ![w].pc = e.to]
        /\ LockStep(e, PLock(w))
    /\ UNCHANGED <<phase, runs, cfg, cfgSaved, files, disk, toQueue, queued, promptQ,
                   verifyQ, vw, calls, loaded>>
    /\ UNCHANGED <<registry, ended, side>>

\* a verify worker moves along verify_worker
L_Verify(w) ==
    /\ \E e \in VerifyFlow :
        /\ vw[w].pc = e.from
        /\ vw' = [vw EXCEPT ![w].pc = e.to]
        /\ LockStep(e, VLock(w))
    /\ UNCHANGED <<phase, runs, cfg, cfgSaved, files, disk, toQueue, queued, promptQ,
                   verifyQ, pw, calls, loaded>>
    /\ UNCHANGED <<registry, ended, side>>

NextLock ==
    \/ L_Orch
    \/ \E w \in Workers : L_Prompt(w)
    \/ \E w \in Workers : L_Verify(w)

SpecLock == LockInit /\ [][NextLock]_vars

(* ------------------------ the TaskList alone --------------------------- *)

\* no invocation of the pipeline: the values its variables keep while a
\* component is exercised on its own
PipelineOff ==
    /\ phase = "off"
    /\ runs = 0
    /\ cfg = from_cli(CHOOSE cli \in CliArgs : TRUE)
    /\ cfgSaved = cfg
    /\ files = [p \in Paths |-> NewFileState]
    /\ disk = SaveDone([main |-> Partial, tmp |-> "absent"], files)
    /\ loaded = files
    /\ lock = Free
    /\ toQueue = {}
    /\ queued = 0
    /\ promptQ = <<>>
    /\ verifyQ = <<>>
    /\ pw = IdlePW
    /\ vw = IdleVW
    /\ calls = NoCalls
    /\ ended = "no"


\* create_task calls made on one TaskList
MaxTasks == 6

\* TaskList::load_or_create in a new tasks directory
RegistryInit ==
    /\ registry = EmptyTaskList
    /\ created = <<>>
    /\ PipelineOff
    /\ git = GitOff
    /\ parse = ParseOff
    /\ merge = MergeOff
    /\ mem = MemOff

\* main (new task mode): create_task
R_CreateTask ==
    /\ git = GitOff
    /\ phase = "off"
    /\ Len(created) < MaxTasks
    /\ created' = Append(created, NewTaskId(registry))
    /\ registry' = create_task(registry)
    /\ UNCHANGED <<pipeline, ended, git, parse, merge, mem>>

\* main, at the end of a run of some task: mark_completed
R_MarkCompleted ==
    /\ git = GitOff
    /\ phase = "off"
    /\ \E n \in 0..MaxTasks : registry' = mark_completed(registry, TaskId(n))
    /\ registry' # registry
    /\ UNCHANGED <<pipeline, ended, created, git, parse, merge, mem>>

NextRegistry == R_CreateTask \/ R_MarkCompleted

SpecRegistry == RegistryInit /\ [][NextRegistry]_vars

(* ---------------------- merging an input manifest ---------------------- *)

\* FileState::new(original_data), with the original_data field
FileState_new(d) ==
    [status |-> "Pending", attempts |-> 0, result |-> NoResult, err |-> NoError,
     data |-> d]

\* mutant: a manifest entry replaces the record its path already has
merge_input_file_insert(st, input) ==
    [p \in (DOMAIN st) \cup (DOMAIN input) |->
        IF p \in DOMAIN input THEN FileState_new(input[p]) ELSE st[p]]

\* State::merge_input_file: `entry(path).or_insert_with(|| FileState::new(..))`
\* for each entry of the manifest
merge_input_file(st, input) ==
    [p \in (DOMAIN st) \cup (DOMAIN input) |->
        IF p \in DOMAIN st THEN st[p] ELSE FileState_new(input[p])]

\* paths and original_data values of the manifests drawn
MergePaths == {"p1", "p2"}
MergeData == {"d1", "d2"}

\* manifests merged one after the other
MaxMerges == 2

\* the input manifests: JSON objects from path to original data
Manifests == UNION {[S -> MergeData] : S \in SUBSET MergePaths}

\* records a State can hold: one fresh, one completed, one failed
MergeRecords ==
    {FileState_new("d1"),
     [FileState_new("d1") EXCEPT !.status = "Completed", !.attempts = 1, !.result = "json"],
     [FileState_new("d2") EXCEPT !.status = "Failed", !.attempts = 2, !.err = ClaudeError]}

MergeInit ==
    /\ \E st \in UNION {[S -> MergeRecords] : S \in SUBSET MergePaths} :
        merge = [on |-> TRUE, st |-> st, input |-> <<>>, n |-> 0]
    /\ PipelineOff
    /\ registry = EmptyTaskList
    /\ created = <<>>
    /\ git = GitOff
    /\ parse = ParseOff
    /\ mem = MemOff

\* main: state.merge_input_file(input)
M_Merge ==
    /\ merge.on
    /\ merge.n < MaxMerges
    /\ \E input \in Manifests :
        merge' = [on |-> TRUE, st |-> merge_input_file(merge.st, input),
                  input |-> input, n |-> merge.n + 1]
    /\ UNCHANGED <<pipeline, registry, ended, created, git, parse, mem>>

\* the same manifest is given once more
M_MergeAgain ==
    /\ merge.on
    /\ merge.n >= 1
    /\ merge.n <= MaxMerges
    /\ merge' = [merge EXCEPT !.st = merge_input_file(merge.st, merge.input),
                              !.n = MaxMerges + 1]
    /\ UNCHANGED <<pipeline, registry, ended, created, git, parse, mem>>

NextMerge == M_Merge \/ M_MergeAgain

SpecMerge == MergeInit /\ [][NextMerge]_vars

(* ------------------- the seed pass on a large State -------------------- *)

\* records beyond the capacity of a queue
SeedExtra == 1

SeedPaths == 1..(QueueCap + SeedExtra)

\* what the records that are not Pending are in
SeedOtherStatus == {"AwaitingVerification", "Completed"}

\* main up to the state lock taken by queue_pending_files, on a State of
\* SeedPaths records: the first k Pending (a manifest just merged), the others
\* left by an earlier invocation
SeedInit ==
    /\ \E cli \in CliArgs :
        /\ cfg = from_cli(cli)
        /\ cfgSaved = from_cli(cli)
    /\ \E k \in 0..(QueueCap + SeedExtra), s \in SeedOtherStatus :
        files = [p \in SeedPaths |->
                    IF p <= k THEN NewFileState
                    ELSE [NewFileState EXCEPT !.status = s]]
    /\ disk = [main |-> Serialize(files), tmp |-> "absent"]
    /\ loaded = files
    /\ phase = "seed"
    /\ runs = 1
    /\ lock = Orch
    /\ toQueue = FilesToQueue(files)
    /\ queued = 0
    /\ promptQ = <<>>
    /\ verifyQ = <<>>
    /\ pw = IdlePW
    /\ vw = IdleVW
    /\ calls = [p \in SeedPaths |-> [prompt |-> 0, fixup |-> 0, verify |-> 0]]
    /\ registry = create_task(EmptyTaskList)
    /\ ended = "no"
    /\ SideOff

\* queue_pending_files, one iteration of the second pass, the Vec taken in the
\* order of the paths
SeedSendInOrder ==
    /\ toQueue # {}
    /\ SeedSendOf(CHOOSE p \in toQueue : \A q \in toQueue : p <= q)

NextSeed == SeedSendInOrder \/ SeedEnd

SpecSeed == SeedInit /\ [][NextSeed]_vars

(* ----------------------------- parse_result ---------------------------- *)

\* a line is a sequence of: a blank, the text "RESULT:", a character JSON
\* accepts here (a digit), a character it does not
LineChars == {" ", "RESULT:", "1", "x"}

\* longest line and most lines drawn
MaxLineLen == 3
MaxLines == 2

\* str::trim
RECURSIVE trim_start(_)
trim_start(s) ==
    IF Len(s) > 0 /\ s[1] = " " THEN trim_start(Tail(s)) ELSE s

RECURSIVE trim_end(_)
trim_end(s) ==
    IF Len(s) > 0 /\ s[Len(s)] = " " THEN trim_end(SubSeq(s, 1, Len(s) - 1)) ELSE s

trim(s) == trim_end(trim_start(s))

\* serde_json::from_str succeeds: on these characters, for a run of digits
IsJson(s) == Len(s) > 0 /\ \A i \in 1..Len(s) : s[i] = "1"

\* ParsedResult values
JsonValue(s) == [value |-> [kind |-> "json", text |-> s], is_raw |-> FALSE]
RawString(s) == [value |-> [kind |-> "string", text |-> s], is_raw |-> TRUE]
NullResult == [value |-> [kind |-> "null", text |-> <<>>], is_raw |-> FALSE]

\* mutant: the lines are scanned from the top
LineFromEnd_fromTop(stdout, k) == stdout[k]

\* `stdout.lines().rev()`: the k-th line the loop visits
LineFromEnd(stdout, k) == stdout[Len(stdout) - k + 1]

\* parse_result: the loop from its k-th iteration on
RECURSIVE ScanFrom(_, _)
ScanFrom(stdout, k) ==
    IF k > Len(stdout) THEN NullResult
    ELSE LET trimmed == trim(LineFromEnd(stdout, k))
         IN IF Len(trimmed) > 0 /\ trimmed[1] = "RESULT:"
            THEN LET json_str == trim(Tail(trimmed))
                 IN IF Len(json_str) = 0 THEN ScanFrom(stdout, k + 1)
                    ELSE IF IsJson(json_str) THEN JsonValue(json_str)
                    ELSE RawString(json_str)
            ELSE ScanFrom(stdout, k + 1)

parse_result(stdout) == ScanFrom(stdout, 1)

RECURSIVE SeqsUpTo(_, _)
SeqsUpTo(S, n) ==
    IF n = 0 THEN {<<>>}
    ELSE LET shorter == SeqsUpTo(S, n - 1)
         IN shorter \cup {Append(q, x) : q \in shorter, x \in S}

\* the stdout of an assistant process, as its lines
ParseInit ==
    /\ \E stdout \in SeqsUpTo(SeqsUpTo(LineChars, MaxLineLen), MaxLines) :
        parse = [on |-> TRUE, stdout |-> stdout, done |-> FALSE, out |-> NullResult]
    /\ PipelineOff
    /\ registry = EmptyTaskList
    /\ created = <<>>
    /\ git = GitOff
    /\ merge = MergeOff
    /\ mem = MemOff

\* prompt_worker, verify_worker: `parse_result(&output.stdout)`
Parse_Run ==
    /\ parse.on
    /\ ~parse.done
    /\ parse' = [parse EXCEPT !.done = TRUE, !.out = parse_result(parse.stdout)]
    /\ UNCHANGED <<pipeline, registry, ended, created, git, merge, mem>>

NextParse == Parse_Run

SpecParse == ParseInit /\ [][NextParse]_vars

(* ------------------- git: allowlists and classification ---------------- *)

\* strings are sequences of characters; a path is the sequence of its components

\* str::starts_with
starts_with(s, pre) == Len(pre) <= Len(s) /\ SubSeq(s, 1, Len(pre)) = pre

\* str::contains
contains(s, t) ==
    \E i \in 0..(Len(s) - Len(t)) : SubSeq(s, i + 1, i + Len(t)) = t

\* str::strip_suffix, when the suffix is there
ends_with(s, suf) ==
    Len(suf) <= Len(s) /\ SubSeq(s, Len(s) - Len(suf) + 1, Len(s)) = suf

\* Path::to_string_lossy: the components joined by "/"
RECURSIVE path_str(_)
path_str(path) ==
    IF Len(path) = 0 THEN <<>>
    ELSE IF Len(path) = 1 THEN path[1]
    ELSE path[1] \o <<"/">> \o path_str(Tail(path))

\* Path::file_stem: the file name up to its last ".", the whole name when the
\* only "." is its first character or there is none
file_stem(name) ==
    LET dots == {i \in 2..Len(name) : name[i] = "."}
    IN IF dots = {} THEN name
       ELSE SubSeq(name, 1, (CHOOSE i \in dots : \A j \in dots : j <= i) - 1)

DotTest == <<".", "t", "e", "s", "t">>
DotSpec == <<".", "s", "p", "e", "c">>

\* extract_file_stem: file_stem without a trailing ".test" or ".spec"
extract_file_stem(path) ==
    LET stem == IF Len(path) = 0 THEN <<>> ELSE file_stem(path[Len(path)])
    IN IF ends_with(stem, DotTest) THEN SubSeq(stem, 1, Len(stem) - Len(DotTest))
       ELSE IF ends_with(stem, DotSpec) THEN SubSeq(stem, 1, Len(stem) - Len(DotSpec))
       ELSE stem

\* Path::parent as a string
file_dir(path) ==
    IF Len(path) <= 1 THEN <<>> ELSE path_str(SubSeq(path, 1, Len(path) - 1))

\* expand_pattern: a pattern is a sequence of characters and placeholders
RECURSIVE expand_pattern(_, _)
expand_pattern(pattern, path) ==
    IF Len(pattern) = 0 THEN <<>>
    ELSE LET t == pattern[1]
             u == IF t = "{file}" THEN path_str(path)
                  ELSE IF t = "{file_stem}" THEN extract_file_stem(path)
                  ELSE IF t = "{file_dir}" THEN file_dir(path)
                  ELSE <<t>>
         IN u \o expand_pattern(Tail(pattern), path)

\* mutant: a glob on the file name only, an exact name otherwise
matches_allowlist_fileNameOnly(path, pattern) ==
    LET name == IF Len(path) = 0 THEN <<>> ELSE path[Len(path)]
    IN IF Len(pattern) > 0 /\ pattern[Len(pattern)] = "*"
       THEN starts_with(name, SubSeq(pattern, 1, Len(pattern) - 1))
       ELSE name = pattern

\* matches_allowlist, for an expanded pattern
matches_allowlist(path, pattern) ==
    IF Len(pattern) > 0 /\ pattern[Len(pattern)] = "*"
    THEN LET prefix == SubSeq(pattern, 1, Len(pattern) - 1)
         IN \/ \E i \in 1..Len(path) : starts_with(path[i], prefix)
            \/ contains(path_str(path), prefix)
    ELSE contains(path_str(path), pattern)

\* GitState::add_allowlist_pattern
add_allowlist_pattern(patterns, pattern) ==
    IF \E i \in 1..Len(patterns) : patterns[i] = pattern
    THEN patterns
    ELSE Append(patterns, pattern)

\* mutant: the global allowlist is not consulted
matches_global_allowlist_never(patterns, path) == FALSE

\* GitState::matches_global_allowlist
matches_global_allowlist(patterns, path) ==
    \E i \in 1..Len(patterns) : matches_allowlist(path, patterns[i])

\* mutant: the baseline is not consulted
was_pre_existing_dirty_never(baseline, path) == FALSE

\* GitState::was_pre_existing_dirty
was_pre_existing_dirty(baseline, path) == path \in baseline

\* check_git_changes_filtered: the (allowed, unauthorized) pair, each as the
\* set of its elements, from what git status reports as dirty
check_git_changes_filtered(allowlist, current_dirty, baseline, patterns) ==
    LET new == {p \in current_dirty : ~was_pre_existing_dirty(baseline, p)}
        ok(p) == \/ matches_allowlist(p, allowlist)
                 \/ matches_global_allowlist(patterns, p)
    IN [allowed |-> {p \in new : ok(p)},
        unauthorized |-> {p \in new : ~ok(p)}]

\* the manifest's files and the paths of the working tree
FileA == << <<"a", ".", "x">> >>
FileB == << <<"b", ".", "x">> >>
GitFiles == {FileA, FileB}
RepoPaths ==
    GitFiles \cup
    { << <<"a", ".", "y">> >>,
      << <<"b", ".", "y">> >>,
      << <<"d">>, <<"a", ".", "x">> >>,
      << <<"c", ".", "x">> >> }

\* --allowlist values: the default "{file_stem}*", and "{file}"
AllowlistPatterns == { <<"{file_stem}", "*">>, <<"{file}">> }

\* the baseline dirty sets drawn: at most this many paths
MaxBaseline == 1

NoClassification == [file |-> <<>>, dirty |-> {}, allowed |-> {}, unauthorized |-> {}]

\* a record whose prompt task has started: update_status(PromptInProgress)
InProgressFileState == [NewFileState EXCEPT !.status = "PromptInProgress"]

\* how the classification of a prompt task ended: not made (git off, or not yet),
\* check_git_changes_filtered returned Err, or Ok with the unauthorized set
\* empty or not
ClassificationOutcomes == {"pending", "err", "empty", "nonempty"}

\* mutant: unauthorized changes fail the file and keep it from verification
PromptOk_failUnauthorized(f, p, r, hasVerify, cls) ==
    IF cls = "nonempty"
    THEN [files |-> set_error(update_status(f, p, "Failed"), p, ClaudeError),
          send |-> FALSE]
    ELSE [files |-> PromptSuccessUpdate(f, p, r, hasVerify), send |-> hasVerify]

\* prompt_worker, the Ok(output) arm: the classification is logged (a warn! for
\* a non-empty unauthorized set), then the result and status are stored and the
\* task is sent on when there is a verification command
PromptOk(f, p, r, hasVerify, cls) ==
    [files |-> PromptSuccessUpdate(f, p, r, hasVerify), send |-> hasVerify]

\* main and run up to the first pass of queue_pending_files: GitState::capture
\* has the baseline, the allowlist is empty, no worker exists
GitInit ==
    /\ \E pat \in AllowlistPatterns, en \in BOOLEAN,
          base \in {b \in SUBSET RepoPaths : Cardinality(b) <= MaxBaseline},
          sd \in (SUBSET GitFiles) \ {{}}, hv \in BOOLEAN :
        git = [on |-> TRUE, pattern |-> pat, enabled |-> en, baseline |-> base,
               seeded |-> sd, toAdd |-> sd, patterns |-> <<>>, gphase |-> "seed",
               dirty |-> base, last |-> NoClassification,
               hasVerify |-> hv,
               cls |-> [f \in GitFiles |-> "pending"],
               rec |-> [f \in GitFiles |-> InProgressFileState],
               sent |-> <<>>]
    /\ PipelineOff
    /\ registry = EmptyTaskList
    /\ created = <<>>
    /\ parse = ParseOff
    /\ merge = MergeOff
    /\ mem = MemOff

\* queue_pending_files, first pass: one file's expanded pattern is added
G_AddPattern ==
    /\ git.on
    /\ git.gphase = "seed"
    /\ git.enabled
    /\ \E f \in git.toAdd :
        git' = [git EXCEPT !.toAdd = @ \ {f},
                           !.patterns = add_allowlist_pattern(@, expand_pattern(git.pattern, f))]
    /\ UNCHANGED <<pipeline, registry, ended, created, parse, merge, mem>>

\* queue_pending_files returns and run spawns the pools
G_SpawnPools ==
    /\ git.on
    /\ git.gphase = "seed"
    /\ git.toAdd = {} \/ ~git.enabled
    /\ git' = [git EXCEPT !.gphase = "run"]
    /\ UNCHANGED <<pipeline, registry, ended, created, parse, merge, mem>>

\* an assistant subprocess writes to a path of the working tree
G_Touch ==
    /\ git.on
    /\ git.gphase = "run"
    /\ \E p \in RepoPaths \ git.dirty : git' = [git EXCEPT !.dirty = @ \cup {p}]
    /\ UNCHANGED <<pipeline, registry, ended, created, parse, merge, mem>>

\* prompt_worker after run_claude: the GitState is cloned under the lock and,
\* when it is enabled, the dirty paths are classified for the worker's file
G_Classify ==
    /\ git.on
    /\ git.gphase = "run"
    /\ git.enabled
    /\ \E f \in git.seeded :
        LET r == check_git_changes_filtered(expand_pattern(git.pattern, f), git.dirty,
                                            git.baseline, git.patterns)
        IN /\ git.cls[f] = "pending"
           /\ git' = [git EXCEPT !.last = [file |-> f, dirty |-> git.dirty,
                                           allowed |-> r.allowed,
                                           unauthorized |-> r.unauthorized],
                                 !.cls[f] = IF r.unauthorized = {} THEN "empty"
                                            ELSE "nonempty"]
    /\ UNCHANGED <<pipeline, registry, ended, created, parse, merge, mem>>

\* prompt_worker after run_claude: a git command of the classification fails,
\* `if let Ok(..) = check_git_changes_filtered(..)` does not match
G_ClassifyErr ==
    /\ git.on
    /\ git.gphase = "run"
    /\ git.enabled
    /\ \E f \in git.seeded :
        /\ git.cls[f] = "pending"
        /\ git' = [git EXCEPT !.cls[f] = "err"]
    /\ UNCHANGED <<pipeline, registry, ended, created, parse, merge, mem>>

\* prompt_worker, Ok(output) after the classification (none when the GitState
\* is not enabled): parse_result, the locked section and the send
G_PromptStore ==
    /\ git.on
    /\ git.gphase = "run"
    /\ \E f \in git.seeded, r \in ParsedResults :
        /\ git.rec[f].status = "PromptInProgress"
        /\ git.enabled => git.cls[f] # "pending"
        /\ LET o == PromptOk(git.rec, f, r, git.hasVerify, git.cls[f])
           IN git' = [git EXCEPT !.rec = o.files,
                                 !.sent = IF o.send THEN Append(@, f) ELSE @]
    /\ UNCHANGED <<pipeline, registry, ended, created, parse, merge, mem>>

NextGit ==
    G_AddPattern \/ G_SpawnPools \/ G_Touch \/ G_Classify \/ G_ClassifyErr \/ G_PromptStore

SpecGit == GitInit /\ [][NextGit]_vars


(* ------------------ git: the baseline and the task branch --------------- *)

\* invocations of the program on the task, and seconds of the clock
MaxInvocations == 2
MaxClock == 1

None == <<>>

\* GitState::default
GitState_default ==
    [original_branch |-> None, task_branch |-> None, dirty |-> {},
     enabled |-> FALSE, patterns |-> {}]

\* GitState::capture on a working directory: not a repository, or the current
\* branch and dirty set, with no task branch and no pattern
capture(repo) ==
    IF ~repo.isRepo THEN GitState_default
    ELSE [original_branch |-> repo.branch, task_branch |-> None, dirty |-> repo.dirty,
          enabled |-> TRUE, patterns |-> {}]

\* create_task_branch: the name from the task id and the UTC time to the second
TaskBranchName(id, now) == <<"claude-loop", id, now>>

\* the git sub-config of a command line
GitCli == [enabled : BOOLEAN, auto_branch : BOOLEAN, auto_commit : BOOLEAN]

\* Config::merge_with_cli, the git settings: a flag given turns the setting on
merge_git(saved, cli) ==
    [enabled |-> saved.enabled \/ cli.enabled,
     auto_branch |-> saved.auto_branch \/ cli.auto_branch,
     auto_commit |-> saved.auto_commit \/ cli.auto_commit]

\* main, new task mode, up to the git capture: State::new has the default
\* GitState; the working directory is as the user left it
BaselineInit ==
    /\ \E cli \in GitCli, isRepo \in BOOLEAN, d \in SUBSET GitFiles :
        git = [on |-> TRUE, saved |-> cli, eff |-> cli, st |-> GitState_default,
               repo |-> [isRepo |-> isRepo, branch |-> <<"main">>, dirty |-> d,
                         branches |-> {}],
               clock |-> 0, bpc |-> "main", inv |-> 1]
    /\ PipelineOff
    /\ registry = create_task(EmptyTaskList)
    /\ created = <<>>
    /\ parse = ParseOff
    /\ merge = MergeOff
    /\ mem = MemOff

\* main: `if config.git.enabled || auto_branch || auto_commit`, GitState::capture,
\* the task branch, set_git_state and save
B_Capture ==
    /\ git.on
    /\ git.bpc = "main"
    /\ IF git.eff.enabled \/ git.eff.auto_branch \/ git.eff.auto_commit
       THEN LET git_state == capture(git.repo)
                name == TaskBranchName(ThisTask, git.clock)
            IN IF ~git_state.enabled
               THEN git' = [git EXCEPT !.bpc = "seed"]
               ELSE IF git.eff.auto_branch /\ git_state.task_branch = None
                    THEN \/ /\ name \notin git.repo.branches
                            /\ git' = [git EXCEPT
                                        !.bpc = "seed",
                                        !.st = [git_state EXCEPT !.task_branch = name],
                                        !.repo.branches = @ \cup {name},
                                        !.repo.branch = name]
                         \/ git' = [git EXCEPT !.bpc = "seed", !.st = git_state]
                    ELSE git' = [git EXCEPT !.bpc = "seed", !.st = git_state]
       ELSE git' = [git EXCEPT !.bpc = "seed"]
    /\ UNCHANGED <<pipeline, registry, ended, created, parse, merge, mem>>

\* queue_pending_files, first pass: the patterns of the files to queue are
\* added to the GitState and saved; the pools are spawned
B_Seed ==
    /\ git.on
    /\ git.bpc = "seed"
    /\ git' = [git EXCEPT !.bpc = "run",
                          !.st.patterns = IF git.st.enabled THEN @ \cup GitFiles ELSE @]
    /\ UNCHANGED <<pipeline, registry, ended, created, parse, merge, mem>>

\* an assistant subprocess writes to a path of the working tree
B_Touch ==
    /\ git.on
    /\ git.bpc = "run"
    /\ \E f \in GitFiles \ git.repo.dirty : git' = [git EXCEPT !.repo.dirty = @ \cup {f}]
    /\ UNCHANGED <<pipeline, registry, ended, created, parse, merge, mem>>

\* verify_worker, commit_file_changes: a file's changes are committed
B_Commit ==
    /\ git.on
    /\ git.bpc = "run"
    /\ git.eff.auto_commit
    /\ git.repo.isRepo
    /\ \E f \in git.repo.dirty : git' = [git EXCEPT !.repo.dirty = @ \ {f}]
    /\ UNCHANGED <<pipeline, registry, ended, created, parse, merge, mem>>

\* the invocation ends
B_Exit ==
    /\ git.on
    /\ git.bpc = "run"
    /\ git' = [git EXCEPT !.bpc = "down"]
    /\ UNCHANGED <<pipeline, registry, ended, created, parse, merge, mem>>

\* a second passes between invocations
B_Tick ==
    /\ git.on
    /\ git.bpc = "down"
    /\ git.clock < MaxClock
    /\ git' = [git EXCEPT !.clock = @ + 1]
    /\ UNCHANGED <<pipeline, registry, ended, created, parse, merge, mem>>

\* main, resume mode, up to the git capture: State::load has the GitState that
\* was saved; the config is the saved one merged with this command line
B_Resume ==
    /\ git.on
    /\ git.bpc = "down"
    /\ git.inv < MaxInvocations
    /\ \E cli \in GitCli :
        git' = [git EXCEPT !.bpc = "main", !.inv = @ + 1,
                           !.eff = merge_git(git.saved, cli)]
    /\ UNCHANGED <<pipeline, registry, ended, created, parse, merge, mem>>

NextBaseline ==
    \/ B_Capture
    \/ B_Seed
    \/ B_Touch
    \/ B_Commit
    \/ B_Exit
    \/ B_Tick
    \/ B_Resume

SpecBaseline == BaselineInit /\ [][NextBaseline]_vars

(* ----------------------- git: the auto-commit --------------------------- *)

\* the verify workers that commit, the files they verified and the paths of
\* the working tree
CommitWorkers == {1, 2}
TestFileA == << <<"a">> \o DotTest \o <<".", "x">> >>
CommitFiles == {TestFileA, FileB}
CommitPaths ==
    CommitFiles \cup { FileA, << <<"b", ".", "y">> >> }

\* commit_file_changes: the dirty paths that contain the file_stem of the
\* file's path, or are the path
related_files(dirty_files, file_path) ==
    LET stem == IF Len(file_path) = 0 THEN <<>>
                ELSE file_stem(file_path[Len(file_path)])
    IN {p \in dirty_files : contains(path_str(p), stem) \/ p = file_path}

\* stage_files: `git add` of the paths, on the index of the working directory
stage_files(index, paths) == index \cup paths

\* main and run with --git-commit, two files awaiting their verify worker: the
\* assistants have written to the working tree, nothing is staged
CommitInit ==
    /\ \E d \in SUBSET CommitPaths, fa \in CommitFiles :
        git = [on |-> TRUE, dirty |-> d, index |-> {}, commits |-> <<>>,
               cw |-> [w \in CommitWorkers |->
                         [file |-> IF w = 1 THEN fa
                                   ELSE CHOOSE f \in CommitFiles : f # fa,
                          pc |-> "passed", seen |-> {}, sel |-> {}, out |-> "none"]]]
    /\ PipelineOff
    /\ registry = EmptyTaskList
    /\ created = <<>>
    /\ parse = ParseOff
    /\ merge = MergeOff
    /\ mem = MemOff

\* an assistant subprocess of a task still in the pipeline writes to a path
C_Touch ==
    /\ git.on
    /\ \E w \in CommitWorkers : git.cw[w].pc # "done"
    /\ \E p \in CommitPaths \ git.dirty : git' = [git EXCEPT !.dirty = @ \cup {p}]
    /\ UNCHANGED <<pipeline, registry, ended, created, parse, merge, mem>>

\* commit_file_changes up to stage_files: get_dirty_files, the related files,
\* Ok(None) when there is none, else `git add`
C_Stage(w) ==
    /\ git.on
    /\ git.cw[w].pc = "passed"
    /\ LET related == related_files(git.dirty, git.cw[w].file)
       IN IF related = {}
          THEN git' = [git EXCEPT !.cw[w].pc = "done", !.cw[w].seen = git.dirty,
                                  !.cw[w].out = "no commit"]
          ELSE git' = [git EXCEPT !.cw[w].pc = "staged", !.cw[w].seen = git.dirty,
                                  !.cw[w].sel = related,
                                  !.index = stage_files(@, related)]
    /\ UNCHANGED <<pipeline, registry, ended, created, parse, merge, mem>>

\* commit_file_changes, commit: `git commit -m` takes the whole index; with an
\* empty index it reports nothing to commit and the hash is empty, Ok(None)
C_Commit(w) ==
    /\ git.on
    /\ git.cw[w].pc = "staged"
    /\ IF git.index = {}
       THEN git' = [git EXCEPT !.cw[w].pc = "done", !.cw[w].out = "no commit"]
       ELSE git' = [git EXCEPT !.cw[w].pc = "done", !.cw[w].out = "commit",
                               !.commits = Append(@, [file |-> git.cw[w].file,
                                                      selected |-> git.cw[w].sel,
                                                      paths |-> git.index]),
                               !.dirty = @ \ git.index,
                               !.index = {}]
    /\ UNCHANGED <<pipeline, registry, ended, created, parse, merge, mem>>

NextCommit ==
    \/ C_Touch
    \/ \E w \in CommitWorkers : C_Stage(w)
    \/ \E w \in CommitWorkers : C_Commit(w)

SpecCommit == CommitInit /\ [][NextCommit]_vars

(* ----------------------- matches_allowlist alone ------------------------ *)

\* patterns and paths drawn: characters of a pattern, characters of a path
\* component, components of a path
MaxPatternLen == 3
MaxComponentLen == 2
MaxComponents == 2

MatchChars == {"a", "b"}
PatternChars == MatchChars \cup {"/", "*"}

\* the sequences over S of the lengths lo..hi
SeqsBetween(S, lo, hi) == UNION {[1..n -> S] : n \in lo..hi}

\* the paths and patterns of test_matches_allowlist, a word or a mark a character
TeamsReducerTs == << <<"src">>, <<"reducer">>, <<"teams", "Reducer", ".", "ts">> >>
TeamsReducerTestTs ==
    << <<"src">>, <<"reducer">>, <<"teams", "Reducer", ".", "test", ".", "ts">> >>
UserReducerTs == << <<"src">>, <<"reducer">>, <<"user", "Reducer", ".", "ts">> >>
TeamsReducerStar == <<"teams", "Reducer", "*">>
TeamsReducerDotTs == <<"teams", "Reducer", ".", "ts">>

MatchPaths ==
    SeqsBetween(SeqsBetween(MatchChars, 1, MaxComponentLen), 1, MaxComponents)
        \cup {TeamsReducerTs, TeamsReducerTestTs, UserReducerTs}
MatchPatterns ==
    SeqsBetween(PatternChars, 0, MaxPatternLen)
        \cup {TeamsReducerStar, TeamsReducerDotTs}

\* a call of matches_allowlist about to be made
MatchInit ==
    /\ \E path \in MatchPaths, pattern \in MatchPatterns :
        git = [on |-> TRUE, path |-> path, pattern |-> pattern,
               called |-> FALSE, out |-> FALSE]
    /\ PipelineOff
    /\ registry = EmptyTaskList
    /\ created = <<>>
    /\ parse = ParseOff
    /\ merge = MergeOff
    /\ mem = MemOff

\* check_git_changes_filtered: `matches_allowlist(path, allowlist)`
Match_Call ==
    /\ git.on
    /\ ~git.called
    /\ git' = [git EXCEPT !.called = TRUE,
                          !.out = matches_allowlist(git.path, git.pattern)]
    /\ UNCHANGED <<pipeline, registry, ended, created, parse, merge, mem>>

NextMatch == Match_Call

SpecMatch == MatchInit /\ [][NextMatch]_vars

(* --------------- invocations that share a tasks directory --------------- *)

\* `registry` is task_list.json; `created` has, for each invocation, where main
\* is, its TaskList in memory and the task it runs
Invocations == {"A", "B"}

NotStarted == [pc |-> "start", list |-> EmptyTaskList, id |-> None]

\* the tasks directory the invocations find: new, or with one earlier task
OverlapInit ==
    /\ registry \in {EmptyTaskList, create_task(EmptyTaskList),
                     mark_completed(create_task(EmptyTaskList), ThisTask)}
    /\ created = [i \in Invocations |-> NotStarted]
    /\ PipelineOff
    /\ git = GitOff
    /\ parse = ParseOff
    /\ merge = MergeOff
    /\ mem = MemOff

\* main: TaskList::load_or_create reads task_list.json
O_Load(i) ==
    /\ created[i].pc = "start"
    /\ created' = [created EXCEPT ![i].pc = "loaded", ![i].list = registry]
    /\ UNCHANGED <<pipeline, registry, ended, git, parse, merge, mem>>

\* main, new task mode: create_task on the list in memory, then task_list.save
O_Create(i) ==
    /\ created[i].pc = "loaded"
    /\ LET list == create_task(created[i].list)
       IN /\ created' = [created EXCEPT ![i].pc = "running", ![i].list = list,
                                        ![i].id = NewTaskId(created[i].list)]
          /\ registry' = list
    /\ UNCHANGED <<pipeline, ended, git, parse, merge, mem>>

\* main after run: the task is complete, mark_completed and task_list.save
O_MarkCompleted(i) ==
    /\ created[i].pc = "running"
    /\ LET list == mark_completed(created[i].list, created[i].id)
       IN /\ created' = [created EXCEPT ![i].pc = "done", ![i].list = list]
          /\ registry' = list
    /\ UNCHANGED <<pipeline, ended, git, parse, merge, mem>>

\* main after run: records remain that are not done, the list is not saved
O_Exit(i) ==
    /\ created[i].pc = "running"
    /\ created' = [created EXCEPT ![i].pc = "done"]
    /\ UNCHANGED <<pipeline, registry, ended, git, parse, merge, mem>>

NextOverlap ==
    \E i \in Invocations : O_Load(i) \/ O_Create(i) \/ O_MarkCompleted(i) \/ O_Exit(i)

SpecOverlap == OverlapInit /\ [][NextOverlap]_vars

(* ------------------------------ claims -------------------------------- *)

DiskFiles == disk.main.files

\* C1: once a record is Completed or Failed its status never changes again, in
\* the running invocation (in memory), in the state file, and in what a later
\* resume loads from it; and no step sets a status to Pending.
C1_TerminalAbsorbing ==
    [][\A p \in Paths :
        /\ DiskFiles[p].status \in Terminal
              => DiskFiles'[p].status = DiskFiles[p].status
        /\ (phase # "down" /\ files[p].status \in Terminal)
              => files'[p].status = files[p].status
        /\ (phase = "down" /\ DiskFiles[p].status \in Terminal)
              => files'[p].status = DiskFiles[p].status
        /\ files'[p].status = "Pending"
              => \/ files[p].status = "Pending"
                 \/ phase = "down" /\ DiskFiles[p].status = "Pending"
        /\ DiskFiles'[p].status = "Pending" => DiskFiles[p].status = "Pending"
      ]_vars

\* C1 witness: a resumed invocation whose workers run beside a record that was
\* loaded terminal, and that has itself brought another record to a terminal status
C1_Witness ==
    /\ runs = 2
    /\ phase = "run"
    /\ \E p, q \in Paths :
        /\ loaded[p].status \in Terminal
        /\ files[p].status = loaded[p].status
        /\ loaded[q].status \notin Terminal
        /\ files[q].status \in Terminal

\* the edges of the status diagram
LegalEdge(s, t, hasVerify) ==
    \/ s = "Pending" /\ t = "PromptInProgress"
    \/ s = "PromptInProgress" /\ t = "Completed" /\ ~hasVerify
    \/ s = "PromptInProgress" /\ t = "AwaitingVerification"
    \/ s = "AwaitingVerification" /\ t = "VerifyInProgress"
    \/ s = "VerifyInProgress" /\ t \in {"Completed", "FixupInProgress", "Failed"}
    \/ s = "FixupInProgress" /\ t = "VerifyInProgress"
    \/ s \in {"PromptInProgress", "FixupInProgress"} /\ t = "Failed"

\* C2: every change a worker makes to a record's status is an edge of the status
\* diagram, in a fresh invocation and in a resumed one.
C2_LegalEdges ==
    [][phase # "down" =>
        \A p \in Paths :
            files'[p].status # files[p].status
                => LegalEdge(files[p].status, files'[p].status, cfg.hasVerify)
      ]_vars

\* C2 witness: a record loaded as FixupInProgress on resume that a verify worker
\* has taken to VerifyInProgress
C2_Witness ==
    /\ runs = 2
    /\ phase = "run"
    /\ \E p \in Paths :
        /\ loaded[p].status = "FixupInProgress"
        /\ files[p].status = "VerifyInProgress"

\* C3: in every state of a running invocation, attempts <= maxRetries for every record.
C3_AttemptsWithinBudget ==
    phase # "down" => \A p \in Paths : files[p].attempts <= cfg.maxRetries

\* C4: when a verify run has exited non-zero and the attempt count has reached
\* maxRetries, the worker's next step marks the record Failed, starts no
\* subprocess and goes back to receive its next task; and while a record is
\* Failed no queue or worker holds it and no subprocess is started for it.
C4_BudgetExhaustedFails ==
    [][phase' = "run" =>
        /\ \A w \in Workers :
            (vw[w].pc = "decide" /\ vw[w].attempts >= cfg.maxRetries /\ vw'[w] # vw[w])
                => /\ files'[vw[w].task].status = "Failed"
                   /\ vw'[w].pc = "idle"
                   /\ calls'[vw[w].task] = calls[vw[w].task]
        /\ \A p \in Paths :
            files'[p].status = "Failed"
                => /\ \A i \in 1..Len(promptQ') : promptQ'[i] # p
                   /\ \A i \in 1..Len(verifyQ') : verifyQ'[i] # p
                   /\ \A w \in Workers : pw'[w].task # p /\ vw'[w].task # p
                   /\ files[p].status = "Failed" => calls'[p] = calls[p]
      ]_vars

\* C4 witness: a verify worker has just given up on a file at max retries and
\* is back at its receive
C4_Witness ==
    /\ phase = "run"
    /\ cfg.maxRetries >= 1
    /\ \E p \in Paths, w \in Workers :
        /\ files[p].status = "Failed"
        /\ files[p].err.kind = "verify"
        /\ files[p].attempts = cfg.maxRetries
        /\ lock = VLock(w)
        /\ vw[w].pc = "idle"

\* the budget-exhaustion scenario: a fresh invocation with maxRetries = 2, a file
\* that started Pending and was failed with a verify output as its error, so
\* every verify run of it exited non-zero and every assistant call succeeded
BudgetScenario(p) ==
    /\ runs = 1
    /\ cfg.maxRetries = 2
    /\ loaded[p].status = "Pending"
    /\ files[p].status = "Failed"
    /\ files[p].err.kind = "verify"

\* C5 as stated: the scenario ends after 1 initial call, 2 fixups and 3 verify runs
C5_AsStated ==
    \A p \in Paths :
        BudgetScenario(p)
            => /\ calls[p] = [prompt |-> 1, fixup |-> 2, verify |-> 3]
               /\ files[p].attempts = 2
               /\ files[p].err = VerifyOutput(calls[p].verify)

\* C5, what verify_worker does in the scenario: with maxRetries = 2 and a verify
\* command that always exits non-zero, a file starting at Pending goes through
\* 1 initial assistant call, 1 fixup call and 2 verify runs, and ends Failed
\* with attempts = 2 and lastError equal to the last verify's error output.
C5_BudgetScenario ==
    \A p \in Paths :
        BudgetScenario(p)
            => /\ calls[p] = [prompt |-> 1, fixup |-> 1, verify |-> 2]
               /\ files[p].attempts = 2
               /\ files[p].err = VerifyOutput(calls[p].verify)

\* C5 witness: the scenario has run to its end
C5_Witness == \E p \in Paths : BudgetScenario(p) /\ DiskFiles[p].status = "Failed"

\* an assistant or verify subprocess is running for path p
SubprocessRunning(p) ==
    /\ phase = "run"
    /\ \E w \in Workers :
        \/ pw[w].task = p /\ pw[w].pc = "claude" /\ lock # PLock(w)
        \/ vw[w].task = p /\ vw[w].pc \in {"verify", "fixup"} /\ lock # VLock(w)

\* C6: while an assistant or verify subprocess runs for a path, the state file
\* holds that path's in-memory status and attempt count.
C6_FlushedBeforeSubprocess ==
    \A p \in Paths :
        SubprocessRunning(p)
            => /\ DiskFiles[p].status = files[p].status
               /\ DiskFiles[p].attempts = files[p].attempts

\* C6 witness: a fixup subprocess runs for a file whose attempts were
\* incremented (without a save of their own) since its verify started
C6_Witness ==
    \E p \in Paths, w \in Workers :
        /\ SubprocessRunning(p)
        /\ vw[w].task = p
        /\ vw[w].pc = "fixup"
        /\ files[p].attempts >= 1

\* C7: a failed assistant call never overwrites a stored resultData: when the
\* call a worker was running for a file failed to spawn or ended with an error
\* (anything but exit code 0), the step that handles it leaves the file's
\* stored resultData as it was.
C7_FailedCallKeepsResult ==
    [][phase # "down" =>
        \A p \in Paths, w \in Workers :
            (/\ files[p].result # NoResult
             /\ \/ /\ pw[w].task = p
                   /\ pw[w].pc = "claude"
                   /\ pw'[w].pc # "claude"
                   /\ pw'[w].exit # "zero"
                \/ /\ vw[w].task = p
                   /\ vw[w].pc = "fixup"
                   /\ vw'[w].pc # "fixup"
                   /\ vw'[w].exit # "zero")
                => files'[p].result = files[p].result
      ]_vars

Occurrences(q, p) == Cardinality({i \in 1..Len(q) : q[i] = p})

\* C8: the seed pass sends a record loaded as Pending or PromptInProgress to the
\* PromptQueue, one loaded as AwaitingVerification, VerifyInProgress or
\* FixupInProgress to the VerifyQueue, and a Completed or Failed one nowhere;
\* it leaves a non-terminal record out only when max_files is reached; and a
\* record loaded as AwaitingVerification that is Completed with no failed
\* verify in between had no assistant call in this invocation.
C8_SeedRouting ==
    /\ phase = "seed" =>
        \A p \in Paths :
            /\ Occurrences(promptQ, p) > 0
                  => loaded[p].status \in {"Pending", "PromptInProgress"}
            /\ Occurrences(verifyQ, p) > 0
                  => loaded[p].status \in
                        {"AwaitingVerification", "VerifyInProgress", "FixupInProgress"}
            /\ (loaded[p].status \notin Terminal /\ p \notin toQueue)
                  => Occurrences(promptQ, p) + Occurrences(verifyQ, p) = 1
    /\ phase = "run" =>
        \/ queued = Cardinality({p \in Paths : loaded[p].status \notin Terminal})
        \/ cfg.maxFiles # NoMaxFiles /\ queued = cfg.maxFiles
    /\ \A p \in Paths :
        (/\ phase = "run"
         /\ loaded[p].status = "AwaitingVerification"
         /\ files[p].status = "Completed"
         /\ files[p].attempts = loaded[p].attempts)
            => calls[p] = [prompt |-> 0, fixup |-> 0, verify |-> 1]

\* C8 witness: a resumed invocation has completed a file that was persisted as
\* AwaitingVerification
C8_Witness ==
    /\ runs = 2
    /\ phase = "run"
    /\ \E p \in Paths :
        /\ loaded[p].status = "AwaitingVerification"
        /\ files[p].status = "Completed"
        /\ files[p].attempts = loaded[p].attempts

\* the places that hold path p: the queues and the workers
Holders(p) ==
    Occurrences(promptQ, p) + Occurrences(verifyQ, p)
        + Cardinality({w \in Workers : pw[w].task = p})
        + Cardinality({w \in Workers : vw[w].task = p})

\* C9: each path is held in at most one place among PromptQueue, a prompt
\* worker, VerifyQueue and a verify worker; the PromptQueue grows only in the
\* seed pass; so at most one worker runs a subprocess for a path.
C9_NoDuplicateTask ==
    [][/\ \A p \in Paths : Holders(p)' <= 1
       /\ Len(promptQ') > Len(promptQ) => phase = "seed"
      ]_vars

\* C9 witness: one file is with a verify worker in its fixup while the other is
\* waiting in the VerifyQueue
C9_Witness ==
    /\ phase = "run"
    /\ \E p, q \in Paths, w \in Workers :
        /\ p # q
        /\ vw[w].task = p
        /\ vw[w].pc = "fixup"
        /\ Occurrences(verifyQ, q) = 1

\* C10: the state file always holds a complete serialization; when it changes
\* it becomes the in-memory state being saved; and a resume loads what it holds.
C10_AtomicSave ==
    [][/\ disk'.main.kind = "full"
       /\ disk'.main # disk.main => disk'.main = Serialize(files)
       /\ (phase = "down" /\ phase' = "seed") => files' = disk.main.files
      ]_vars

\* C10 witness: an invocation resumed after a crash inside fs::write of the temp file
C10_Witness ==
    /\ runs = 2
    /\ phase = "seed"
    /\ disk.tmp = "partial"
    /\ files = disk.main.files
    /\ \E p \in Paths : files[p].status # "Pending"

TaskCompleted == registry.tasks[ThisTask].completed

\* C11: the step that marks the task's registry entry completed is taken only
\* when every file record in the state file is Completed or Failed.
C11_CompletedOnlyWhenAllTerminal ==
    [][(TaskCompleted' /\ ~TaskCompleted)
          => \A p \in Paths : DiskFiles'[p].status \in Terminal
      ]_vars

\* the records the seed pass of this invocation has sent to a queue
Seeded == {p \in Paths : loaded[p].status \notin Terminal /\ p \notin toQueue}

AllWorkersExited ==
    phase = "run" /\ \A w \in Workers : pw[w].pc = "done" /\ vw[w].pc = "done"

\* C12: when every prompt worker and every verify worker has exited (the
\* invocation was neither killed nor signalled), every file the seed pass
\* queued is Completed or Failed: no seeded task is left behind.
C12_NoSeededTaskLost ==
    AllWorkersExited => \A p \in Seeded : files[p].status \in Terminal

Classified == git.on /\ git.last # NoClassification

\* C13: with git enabled, a classification run for a seeded file a never puts
\* in its unauthorized set a path that matches the expanded allowlist of a file
\* b seeded in the same run.
C13_PeerFilesAuthorized ==
    Classified =>
        \A b \in git.seeded :
            \A p \in git.last.unauthorized :
                ~matches_allowlist(p, expand_pattern(git.pattern, b))

\* C13 witness: the run for one file has classified while a path matching only
\* the other file's allowlist was newly dirty, and allowed it
C13_Witness ==
    /\ Classified
    /\ \E b \in git.seeded \ {git.last.file} :
        \E p \in git.last.allowed :
            /\ matches_allowlist(p, expand_pattern(git.pattern, b))
            /\ ~matches_allowlist(p, expand_pattern(git.pattern, git.last.file))

\* C14: for baseline B, worker allowlist A, global allowlist G and current dirty
\* set C, unauthorized is the set of paths of C \ B that match neither A nor a
\* pattern of G, allowed is the set of paths of C \ B that match A or a pattern
\* of G, and no path of B is in either.
C14_Classification ==
    Classified =>
        LET B == git.baseline
            C == git.last.dirty
            A == expand_pattern(git.pattern, git.last.file)
            InG(p) == \E i \in 1..Len(git.patterns) : matches_allowlist(p, git.patterns[i])
        IN /\ git.last.unauthorized =
                  {p \in C \ B : ~matches_allowlist(p, A) /\ ~InG(p)}
           /\ git.last.allowed =
                  {p \in C \ B : matches_allowlist(p, A) \/ InG(p)}
           /\ B \cap (git.last.allowed \cup git.last.unauthorized) = {}

\* C14 witness: a classification with a dirty baseline path, an allowed path
\* and an unauthorized one
C14_Witness ==
    /\ Classified
    /\ git.baseline \cap git.last.dirty # {}
    /\ git.last.allowed # {}
    /\ git.last.unauthorized # {}

\* the task ids and state files of a TaskList are pairwise distinct, every
\* id create_task returned has its entry, and the counter is above every N
RegistryDistinct(tl, ids) ==
    /\ \A i, j \in 1..Len(ids) : i # j => ids[i] # ids[j]
    /\ DOMAIN tl.tasks = {ids[i] : i \in 1..Len(ids)}
    /\ \A a, b \in DOMAIN tl.tasks :
        a # b => tl.tasks[a].state_file # tl.tasks[b].state_file
    /\ \A i \in 1..Len(ids) : ids[i][2] < tl.next_id

\* C15: create_task returns task_N for N the counter before the call, gives the
\* entry the state file state_N.json and bumps the counter by one; after any
\* sequence of create_task and mark_completed calls the task ids and the state
\* files are pairwise distinct and the counter is above every allocated N.
C15_TaskIdAllocation ==
    [][/\ created' # created =>
            LET id == created'[Len(created')]
            IN /\ id = TaskId(registry.next_id)
               /\ registry'.tasks[id].state_file = StateFile(registry.next_id)
               /\ registry'.tasks[id].completed = FALSE
               /\ registry'.next_id = registry.next_id + 1
       /\ created' = created => registry'.next_id = registry.next_id
       /\ RegistryDistinct(registry', created')
      ]_vars

\* C15 witness: several tasks allocated, some of them marked completed
C15_Witness ==
    /\ Len(created) >= 3
    /\ \E a, b \in DOMAIN registry.tasks :
        registry.tasks[a].completed /\ ~registry.tasks[b].completed

\* C16: a merge leaves every record that was present as it was (status,
\* attempts, resultData, lastError, originalData), adds the manifest's other
\* paths as Pending with attempts 0 and the manifest's data, and applying the
\* same manifest again changes nothing.
C16_MergeNeverOverwrites ==
    [][merge.on =>
        /\ \A p \in DOMAIN merge.st : merge'.st[p] = merge.st[p]
        /\ DOMAIN merge'.st = (DOMAIN merge.st) \cup (DOMAIN merge'.input)
        /\ \A p \in (DOMAIN merge'.input) \ (DOMAIN merge.st) :
            /\ merge'.st[p].status = "Pending"
            /\ merge'.st[p].attempts = 0
            /\ merge'.st[p].result = NoResult
            /\ merge'.st[p].err = NoError
            /\ merge'.st[p].data = merge'.input[p]
        /\ (merge.n >= 1 /\ merge'.input = merge.input) => merge'.st = merge.st
      ]_vars

\* C16 witness: a manifest naming a path that held a completed record and a new
\* path has been merged, and then merged again
C16_Witness ==
    /\ merge.on
    /\ merge.n = MaxMerges + 1
    /\ \E p, q \in DOMAIN merge.input :
        /\ merge.st[p].status = "Completed"
        /\ merge.st[p].data # merge.input[p]
        /\ merge.st[q].status = "Pending"
        /\ merge.st[q].data = merge.input[q]

\* the verify-fails-once scenario: a fresh invocation with maxRetries = 3, a
\* file that started Pending and is Completed after two verify runs, so its
\* first verify exited non-zero, its second exited 0 and no assistant call failed
VerifyFailsOnce(p) ==
    /\ runs = 1
    /\ phase = "run"
    /\ cfg.hasVerify
    /\ cfg.maxRetries = DefaultMaxRetries
    /\ loaded[p].status = "Pending"
    /\ files[p].status = "Completed"
    /\ calls[p].verify = 2

\* C17: in the verify-fails-once scenario the file went through exactly 1
\* initial assistant call, 1 fixup assistant call and 2 verify runs, and is
\* Completed with attempts = 1.
C17_VerifyFailsOnce ==
    \A p \in Paths :
        VerifyFailsOnce(p)
            => /\ calls[p] = [prompt |-> 1, fixup |-> 1, verify |-> 2]
               /\ files[p].attempts = 1
               /\ (lock = Free => DiskFiles[p] = files[p])

\* C17 witness: the scenario has run to its end and is saved
C17_Witness ==
    \E p \in Paths : VerifyFailsOnce(p) /\ DiskFiles[p].status = "Completed"

\* C18: in an invocation with no verification command, nothing is on the
\* VerifyQueue, no verify worker holds a task or is anywhere but exited, and a
\* file the prompt stage has completed had exactly one assistant call, no verify
\* run, and has attempts = 0.
C18_NoVerifyCommand ==
    (phase \in {"seed", "run"} /\ ~cfg.hasVerify) =>
        /\ verifyQ = <<>>
        /\ \A w \in Workers : vw[w].task = NoTask /\ vw[w].pc \in {"off", "done"}
        /\ \A p \in Paths :
            (loaded[p].status \in {"Pending", "PromptInProgress"}
                /\ files[p].status \notin {"Pending", "PromptInProgress", "Failed"})
              => /\ files[p].status = "Completed"
                 /\ calls[p] = [prompt |-> 1, fixup |-> 0, verify |-> 0]
                 /\ files[p].attempts = 0

\* the suffix of a line after RESULT:, trimmed; empty when the trimmed line
\* does not start with RESULT:
ResultSuffix(line) ==
    LET t == trim(line)
    IN IF Len(t) > 0 /\ t[1] = "RESULT:" THEN trim(Tail(t)) ELSE <<>>

\* C19: the result is taken from the last line whose trimmed form starts with
\* RESULT: and has a non-empty trimmed suffix: its parse with raw = false when
\* the suffix is valid JSON, the suffix string with raw = true otherwise; with
\* no such line the value is null with raw = false.
C19_LastWins ==
    (parse.on /\ parse.done) =>
        LET out == parse.stdout
            winners == {i \in 1..Len(out) : ResultSuffix(out[i]) # <<>>}
        IN IF winners = {}
           THEN parse.out.value.kind = "null" /\ parse.out.is_raw = FALSE
           ELSE LET last == CHOOSE i \in winners : \A j \in winners : j <= i
                    suffix == ResultSuffix(out[last])
                IN IF IsJson(suffix)
                   THEN parse.out = [value |-> [kind |-> "json", text |-> suffix],
                                     is_raw |-> FALSE]
                   ELSE parse.out = [value |-> [kind |-> "string", text |-> suffix],
                                     is_raw |-> TRUE]

\* C19 witness: two RESULT: lines with different suffixes, the first valid
\* JSON and the last not, parsed
C19_Witness ==
    /\ parse.on
    /\ parse.done
    /\ Len(parse.stdout) = 2
    /\ IsJson(ResultSuffix(parse.stdout[1]))
    /\ ResultSuffix(parse.stdout[2]) # <<>>
    /\ ~IsJson(ResultSuffix(parse.stdout[2]))
    /\ parse.out.is_raw

\* C20: the seed pass always completes: while queue_pending_files runs, either
\* some record left to queue can be sent (its queue has room) or the pass can
\* return; the orchestrator is never stopped in a send on a full queue that no
\* worker exists to receive from.
C20_SeedPassNeverBlocks ==
    phase = "seed" => ENABLED (SeedSend \/ SeedEnd)

\* C21: a verify worker reads the pause flag before every verify iteration and
\* every fixup iteration of a file: the flag has been read for a path at least
\* as many times as verify and fixup subprocesses have been started for it.
C21_FlagCheckedEveryIteration ==
    mem.on => \A p \in Paths : mem.checks[p] >= calls[p].verify + calls[p].fixup

\* a worker awaits a future that no notify_waiters call has woken, the flag is
\* clear and the monitor has no notification left to send: only a later pause
\* and resume can wake it
MissedWakeup(w) ==
    /\ vw[w].pc = "await"
    /\ mem.fut[w] = "pending"
    /\ ~mem.paused
    /\ mem.mon = "sleep"

\* C22: no lost wake-up: once the monitor has cleared the flag and notified, no
\* worker that had seen the flag set is left waiting on the notification.
C22_NoLostWakeup ==
    mem.on => \A w \in Workers : ~MissedWakeup(w)

\* C23: hysteresis: a sample sets the flag only when it is clear and the sample
\* is above HighThreshold, clears it only when it is set and the sample is below
\* LowThreshold, and notifies only when it clears; no other step changes the
\* flag or calls for a notification.
C23_Hysteresis ==
    [][mem.on =>
        IF mem'.n # mem.n
        THEN /\ (mem'.paused /\ ~mem.paused) => mem'.percent > HighThreshold
             /\ (~mem'.paused /\ mem.paused) => mem'.percent < LowThreshold
             /\ (mem'.mon = "notify") <=> (mem.paused /\ ~mem'.paused)
        ELSE /\ mem'.paused = mem.paused
             /\ mem'.mon = "notify" => mem.mon = "notify"]_vars

\* C23 witness: the flag was set, a sample below LowThreshold has cleared it
\* and the notification is about to go out, with a worker waiting for it
C23_Witness ==
    /\ mem.on
    /\ ~mem.paused
    /\ mem.mon = "notify"
    /\ mem.percent < LowThreshold
    /\ \E w \in Workers : vw[w].pc = "await"

\* C24: mutations of State are mutually exclusive with a mutation-and-save
\* section: while a worker holds the lock with its save under way nothing
\* changes State.files, and the file a save writes is State.files as it is then,
\* every earlier mutation included.
C24_MutationsExclusive ==
    [][/\ lock \notin {Free, Orch} => files' = files
       /\ (disk' # disk /\ phase' = phase) =>
            /\ lock \notin {Free, Orch}
            /\ disk'.main = Serialize(files)]_vars

\* C24 witness: a prompt worker is in its mutation-and-save section while a
\* verify worker has a subprocess result to record
C24_Witness ==
    /\ phase = "run"
    /\ \E w, u \in Workers :
        /\ lock = PLock(w)
        /\ vw[u].pc \in {"verify", "fixup"}
        /\ files[vw[u].task].status \in {"VerifyInProgress", "FixupInProgress"}

\* C25: no worker and no orchestrator step holds the state lock while a
\* subprocess it started is running or while it waits on the memory signal.
C25_NoLockAcrossSubprocess ==
    /\ \A w \in Workers :
        /\ pw[w].pc \in SubprocessPlaces \cup MemoryWaitPlaces => lock # PLock(w)
        /\ vw[w].pc \in SubprocessPlaces \cup MemoryWaitPlaces => lock # VLock(w)
    /\ phase \in SubprocessPlaces \cup MemoryWaitPlaces => lock # Orch

\* C25 witness: a prompt worker is in the git check and a verify worker in its
\* verify command while the lock is free, each having held it before
C25_Witness ==
    \E w, u \in Workers :
        /\ pw[w].pc = "git91"
        /\ vw[u].pc = "run140"
        /\ lock = Free

\* C26: the GitBaseline of a task is set once: after it is captured, its dirty
\* set and original branch never change, in that invocation or a later resume.
C26_BaselineSetOnce ==
    [][(git.on /\ git.st.enabled) =>
        /\ git'.st.dirty = git.st.dirty
        /\ git'.st.original_branch = git.st.original_branch]_vars

\* C27: a task branch is created only if auto-branch is on and the task's
\* GitBaseline has no task branch set; a resume of a task whose state records
\* a task branch creates no other.
C27_OneTaskBranch ==
    [][(git.on /\ git'.repo.branches # git.repo.branches) =>
        /\ git.eff.auto_branch
        /\ git.st.task_branch = None]_vars

\* a prompt worker's assistant invocation ends in this step, failed: it could
\* not be spawned (exit "none") or it terminated with an error ("nonzero")
PromptCallFails(w) ==
    /\ phase = "run"
    /\ phase' = "run"
    /\ pw[w].pc = "claude"
    /\ pw'[w].pc # "claude"
    /\ pw'[w].exit # "zero"

\* C28: when an assistant invocation for a file fails (spawn failure or
\* abnormal termination) the file becomes Failed with its error stored, it is
\* not sent to the VerifyQueue, the worker goes on to its next task, and no
\* other file's record changes.
C28_PromptFailure ==
    [][\A w \in Workers :
        PromptCallFails(w) =>
            LET p == pw[w].task IN
            /\ files'[p].status = "Failed"
            /\ files'[p].err # NoError
            /\ pw'[w].pc = "idle"
            /\ verifyQ' = verifyQ
            /\ \A q \in Paths \ {p} : files'[q] = files[q]]_vars

\* the step in which the record of p gets the error of a verify command that
\* could not be spawned
VerifySpawnFails(p) ==
    /\ files[p].err # VerifySpawnError
    /\ files'[p].err = VerifySpawnError

\* C29: when the verify command fails to spawn, the file becomes Failed with
\* the error stored and its attempts left as they were, no fixup is started,
\* and the verify worker is free for its next task.
C29_VerifySpawnFailure ==
    [][\A p \in Paths :
        VerifySpawnFails(p) =>
            /\ files'[p].status = "Failed"
            /\ files'[p].attempts = files[p].attempts
            /\ calls' = calls
            /\ \A w \in Workers : vw[w].task = p => vw'[w].pc = "idle"
            /\ \A q \in Paths \ {p} : files'[q] = files[q]]_vars

\* C29 witness: a file failed on the spawn of its verify command, and the
\* worker that had it is verifying another file
C29_Witness ==
    \E p, q \in Paths, w \in Workers :
        /\ p # q
        /\ files[p].status = "Failed"
        /\ files[p].err = VerifySpawnError
        /\ calls[p].fixup = 0
        /\ vw[w].pc = "verify"
        /\ vw[w].task = q

\* a worker's save ends in this step: the lock it held for it is released and
\* the process lives on
SaveEnds == lock \notin {Free, Orch} /\ lock' = Free /\ phase' = phase

\* C30: a failed save loses nothing: a save that ends, failed or not, leaves
\* State.files in memory and every worker's position as they were, and a save
\* that changes the state file writes State.files whole, so every mutation
\* since the last successful save is in it.
C30_FailedSaveLosesNothing ==
    [][SaveEnds =>
        /\ files' = files
        /\ pw' = pw
        /\ vw' = vw
        /\ disk'.main # disk.main => disk'.main = Serialize(files)]_vars

\* C30 witness: the saves of a file's PromptInProgress and later sections have
\* failed, the file is Completed in memory and still Pending in the state
\* file, and its worker has gone on
C30_Witness ==
    \E p \in Paths :
        /\ phase = "run"
        /\ lock = Free
        /\ files[p].status = "Completed"
        /\ DiskFiles[p].status = "Pending"
        /\ \A w \in Workers : pw[w].task # p /\ vw[w].task # p

\* a verify run for p exits non-zero in this step
VerifyRunFails(p) ==
    \E w \in Workers :
        /\ vw[w].task = p
        /\ vw[w].pc = "verify"
        /\ vw'[w].pc = "decide"

\* C31: the attempts counter of a file counts its verify runs that exited
\* non-zero: such a run adds exactly one to it, and no other step (the prompt,
\* a fixup, a passing verify, a verify that cannot be spawned, a restart of the
\* program) changes it.
C31_AttemptsCountFailedVerifies ==
    [][\A p \in Paths :
        files'[p].attempts =
            files[p].attempts + (IF VerifyRunFails(p) THEN 1 ELSE 0)]_vars

\* the records this invocation found non-terminal and has sent to a queue
Enqueued == {p \in Paths : loaded[p].status \notin Terminal /\ p \notin toQueue}

\* C32: with a max_files cap the seed pass sends at most max_files tasks, over
\* both queues together, and every non-terminal record it did not send keeps
\* its status, attempts and resultData for the whole invocation.
C32_MaxFilesCap ==
    phase \in {"seed", "run"} =>
        /\ cfg.maxFiles # NoMaxFiles =>
              /\ Cardinality(Enqueued) <= cfg.maxFiles
              /\ phase = "seed" => Len(promptQ) + Len(verifyQ) <= cfg.maxFiles
        /\ \A p \in toQueue :
              loaded[p].status \notin Terminal =>
                  /\ files[p].status = loaded[p].status
                  /\ files[p].attempts = loaded[p].attempts
                  /\ files[p].result = loaded[p].result

\* the cap cut the seed pass short and the file that was sent is finished
C32_Witness ==
    /\ phase = "run"
    /\ cfg.maxFiles = 1
    /\ \E p \in toQueue : files[p].status \notin Terminal
    /\ \E p \in Enqueued : files[p].status = "Completed"

\* C33: unauthorized changes never block a file: the status a prompt step
\* leaves, the result it stores and the queueing that follows are the same
\* whether the classification found no unauthorized path, found some, or failed.
C33_UnauthorizedNeverBlocks ==
    [][git.on =>
        \A f \in GitFiles :
            git'.rec[f] # git.rec[f] =>
                /\ git'.rec[f].status =
                      (IF git.hasVerify THEN "AwaitingVerification" ELSE "Completed")
                /\ git'.rec[f].result \in ParsedResults
                /\ git'.rec[f].err = NoError
                /\ git'.sent = (IF git.hasVerify THEN Append(git.sent, f) ELSE git.sent)]_vars

\* one file's prompt step stored after unauthorized changes were found, another
\* after the classification failed
C33_Witness ==
    /\ git.on
    /\ \E f, g \in git.seeded :
        /\ git.cls[f] = "nonempty"
        /\ git.cls[g] = "err"
        /\ git.rec[f].status = "AwaitingVerification"
        /\ git.rec[g].status = "AwaitingVerification"
        /\ Len(git.sent) = 2

\* the selection of the auto-commit as documented: the file_stem placeholder's
\* stem, a trailing ".test" or ".spec" stripped
StrippedSelection(dirty_files, file_path) ==
    {p \in dirty_files :
        contains(path_str(p), extract_file_stem(file_path)) \/ p = file_path}

\* C34: the paths the auto-commit of f stages are the dirty paths that contain
\* f's file stem (a trailing .test or .spec stripped) or equal f's path; with
\* none, or with a commit that reports nothing to commit, the outcome is
\* "no commit".
C34_AutoCommitSelection ==
    git.on =>
        \A w \in CommitWorkers :
            /\ git.cw[w].pc \in {"staged", "done"} =>
                  git.cw[w].sel = StrippedSelection(git.cw[w].seen, git.cw[w].file)
            /\ git.cw[w].pc = "done" /\ git.cw[w].sel = {} => git.cw[w].out = "no commit"

\* C39: the commit of a file holds only the paths selected for that file.
C39_CommitIsolation ==
    git.on =>
        \A i \in 1..Len(git.commits) :
            git.commits[i].paths \subseteq git.commits[i].selected

\* t occurs in s from position k + 1 on
OccursAt(s, t, k) ==
    /\ k + Len(t) <= Len(s)
    /\ \A i \in 1..Len(t) : s[k + i] = t[i]

\* C35: matches(path, pattern): for a pattern that ends in "*", with prefix the
\* pattern without it, true exactly when some component of the path starts
\* with prefix or the whole path contains prefix; for any other pattern, true
\* exactly when the whole path contains the pattern. With "teamsReducer*" the
\* paths src/reducer/teamsReducer.ts and src/reducer/teamsReducer.test.ts match
\* and src/reducer/userReducer.ts does not; with "teamsReducer.ts" the first
\* matches and the second does not.
C35_MatchesAllowlist ==
    git.on /\ git.called =>
        LET path == git.path
            pattern == git.pattern
            full == path_str(path)
            n == Len(pattern)
            star == n > 0 /\ pattern[n] = "*"
            prefix == [i \in 1..(n - 1) |-> pattern[i]]
        IN /\ star =>
                (git.out <=>
                    \/ \E c \in 1..Len(path) : OccursAt(path[c], prefix, 0)
                    \/ \E k \in 0..Len(full) : OccursAt(full, prefix, k))
           /\ ~star =>
                (git.out <=> \E k \in 0..Len(full) : OccursAt(full, pattern, k))
           /\ pattern = TeamsReducerStar =>
                /\ path \in {TeamsReducerTs, TeamsReducerTestTs} => git.out
                /\ path = UserReducerTs => ~git.out
           /\ pattern = TeamsReducerDotTs =>
                /\ path = TeamsReducerTs => git.out
                /\ path = TeamsReducerTestTs => ~git.out

\* a glob that matches by a directory of the path, not by the file name
C35_Witness ==
    /\ git.on
    /\ git.called
    /\ git.out
    /\ git.pattern = <<"a", "*">>
    /\ git.path = << <<"a", "b">>, <<"b">> >>

\* C36: every Failed record carries its reason: in memory and in every saved
\* state file, a record whose status is Failed has lastError set.
C36_FailedHasError ==
    /\ \A p \in Paths : files[p].status = "Failed" => files[p].err # NoError
    /\ Loadable(disk) =>
          \A p \in Paths : DiskFiles[p].status = "Failed" => DiskFiles[p].err # NoError

\* a file failed by a fixup that could not be run, and saved so
C36_Witness ==
    /\ Loadable(disk)
    /\ \E p \in Paths :
        /\ DiskFiles[p].status = "Failed"
        /\ DiskFiles[p].err = ClaudeError
        /\ calls[p].fixup > 0

\* p was resumed non-terminal with attempts below a max_retries that the
\* command line left as it was saved
ResumedWithBudget(p) ==
    /\ runs >= 2
    /\ cfg.maxRetries = cfgSaved.maxRetries
    /\ loaded[p].attempts < cfg.maxRetries
    /\ loaded[p].status \notin Terminal

\* C37: the retry budget carries across resume: for a file resumed with
\* attempts = k < maxRetries, at most maxRetries - k further verify runs fail
\* and at most maxRetries - k - 1 further fixups are run before it is Failed:
\* within the resumed invocation, and, when that invocation is itself
\* interrupted, with the runs it made counted against what the next one allows.
C37_BudgetCarriesAcrossResume ==
    [][\A p \in Paths :
        ResumedWithBudget(p) =>
            /\ files[p].attempts - loaded[p].attempts
                  <= cfg.maxRetries - loaded[p].attempts
            /\ calls[p].fixup <= cfg.maxRetries - loaded[p].attempts - 1
            /\ (/\ runs' = runs + 1
                /\ cfg'.maxRetries = cfg.maxRetries
                /\ files'[p].status \notin Terminal)
                  => cfg'.maxRetries - files'[p].attempts
                        <= cfg.maxRetries - files[p].attempts]_vars

\* C38: registry entries are not lost between overlapping invocations on one
\* tasks directory: a save of the registry keeps every entry task_list.json
\* has and does not lower its next-ID counter, and two invocations never get
\* the same task ID.
C38_RegistryKeptAcrossInvocations ==
    [][/\ DOMAIN registry.tasks \subseteq DOMAIN registry'.tasks
       /\ registry'.next_id >= registry.next_id
       /\ \A i, j \in Invocations :
            i # j /\ created'[i].id # None => created'[i].id # created'[j].id]_vars

\* the record is past the prompt stage under the configuration cf
PastPromptStage(r, cf) ==
    \/ r.status = "AwaitingVerification"
    \/ r.status = "Completed" /\ ~cf.hasVerify

====
